---- MODULE Spec2Model ----
(***************************************************************************)
(* A model of the wind particle layer of maplibre-gl-wind:                 *)
(*   WindParticleLayer.ts        (src/unnamed/part_000)                    *)
(*   wind-particle-transform.glsl.ts                                       *)
(*                                                                         *)
(* Numbers.  Longitudes and latitudes are integers, in degrees; the        *)
(* floating point values of the program are taken on that grid, and a      *)
(* result that falls between two grid points is rounded (Round, Floor).    *)
(* Fractions in [0,1] (random points, texture coordinates, colour-ramp     *)
(* positions) are numerators over a named denominator.                     *)
(***************************************************************************)
EXTENDS Integers, Sequences, FiniteSets, TLC

VARIABLES
    wlIn,       \* SpecWrap: the argument lng of wrapLongitude
    wlMin,      \* SpecWrap: the argument minLng (Undefined or <<m>>)
    wlOut,      \* SpecWrap: the results, Undefined before the call
    rampIn,     \* SpecRamp: the colorRamp argument of createColorRampData
    rampOut,    \* SpecRamp: the returned table, <<>> before the call
    vsIn,       \* SpecVertex: gl_VertexID, sourcePosition and the uniforms
    vsOut,      \* SpecVertex: targetPosition and the rule taken, <<>> before
    phase,      \* the layer's lifecycle: "new", "initialized", "active", "finalized"
    props,      \* this.props
    state,      \* this.state (WindParticleState)
    heap,       \* the GPU resources created so far; a handle is an index
    timers,     \* the pending setTimeout callbacks of requestStep
    context,    \* this.context: the timeline's time at the last step
    needsRedraw,\* the layer's redraw flag
    rendered,   \* the segments handed to the last draw call
    simple,     \* SpecSimple: a SimpleWindLayer, its GL context and last call
    wbIn,       \* SpecBounds: the argument bounds of wrapBounds
    wbOut,      \* SpecBounds: the returned bounds, <<>> before the call
    txIn,       \* SpecTexture: the interpolated grid of generateWindTexture
    txOut,      \* SpecTexture: the texture and its ranges, <<>> before the call
    tickLog     \* SpecTicks: the last step and how long each lane has lived

wrapVars == <<wlIn, wlMin, wlOut>>

rampVars == <<rampIn, rampOut>>

vertexVars == <<vsIn, vsOut>>

layerVars == <<phase, props, state, heap, timers, context, needsRedraw, rendered>>

boundsVars == <<wbIn, wbOut>>

textureVars == <<txIn, txOut>>

auxVars == <<simple, boundsVars, textureVars, tickLog>>

vars == <<wrapVars, rampVars, vertexVars, layerVars, auxVars>>

----------------------------------------------------------------------------
(* Values *)

\* JavaScript's undefined, for an optional number: <<>> or <<n>>.
Undefined == <<>>

Some(x) == <<x>>

\* The largest |lng| handed to wrapLongitude in SpecWrap.
MaxAbsLng == 750

\* The minLng arguments of SpecWrap, besides undefined.
MinLngs == {-180, -170, 0, 170, 179}

----------------------------------------------------------------------------
(* Arithmetic of the two languages *)

\* JavaScript's x % y (y > 0): the remainder has the sign of the dividend.
JsRem(x, y) == IF x >= 0 THEN x % y ELSE -((-x) % y)

\* GLSL's mod(x, y) = x - y * floor(x / y).
GlslMod(x, y) == x - y * (x \div y)

\* A deliberately wrong modulo: the remainder alone, negative for negative x.
modulo_NoFix(x, y) == JsRem(x, y)

\* function modulo(x, y): ((x % y) + y) % y
modulo(x, y) == JsRem(JsRem(x, y) + y, y)

\* function wrapLongitude(lng, minLng = undefined) of WindParticleLayer.ts
wrapLongitude(lng, minLng) ==
    LET wrappedLng == modulo(lng + 180, 360) - 180
    IN  IF minLng /= Undefined /\ wrappedLng < minLng[1]
        THEN wrappedLng + 360
        ELSE wrappedLng

\* float wrapLongitude(float lng) of the transform shader
glslWrapLongitude(lng) == GlslMod(lng + 180, 360) - 180

\* float wrapLongitude(float lng, float minLng) of the transform shader
glslWrapLongitudeMin(lng, minLng) ==
    LET wrappedLng == glslWrapLongitude(lng)
    IN  IF wrappedLng < minLng THEN wrappedLng + 360 ELSE wrappedLng

----------------------------------------------------------------------------
(* SpecWrap: wrapLongitude applied to every argument of a bounded set *)

IdleWrap == wlIn = 0 /\ wlMin = Undefined /\ wlOut = Undefined

IdleRamp == rampIn = <<>> /\ rampOut = <<>>

IdleVertex == vsIn = <<>> /\ vsOut = <<>>

\* No SimpleWindLayer has been constructed.
IdleSimple == simple = <<>>

IdleBounds == wbIn = <<>> /\ wbOut = <<>>

IdleTexture == txIn = <<>> /\ txOut = <<>>

IdleTicks == tickLog = <<>>

IdleAux == IdleSimple /\ IdleBounds /\ IdleTexture /\ IdleTicks

\* No layer has been constructed.
IdleLayer ==
    /\ IdleAux
    /\ phase = "none" /\ props = <<>> /\ state = <<>> /\ heap = <<>>
    /\ timers = 0 /\ context = <<>> /\ needsRedraw = FALSE /\ rendered = <<>>

InitWrap ==
    /\ IdleRamp
    /\ IdleVertex
    /\ IdleLayer
    /\ wlIn \in -MaxAbsLng..MaxAbsLng
    /\ wlMin \in {Undefined} \cup {Some(m) : m \in MinLngs}
    /\ wlOut = Undefined

\* One call of each of the two implementations on the same argument.
CallWrapLongitude ==
    /\ wlOut = Undefined
    /\ wlOut' = <<wrapLongitude(wlIn, wlMin),
                  IF wlMin = Undefined
                  THEN glslWrapLongitude(wlIn)
                  ELSE glslWrapLongitudeMin(wlIn, wlMin[1])>>
    /\ UNCHANGED <<wlIn, wlMin, rampVars, vertexVars, layerVars, auxVars>>

NextWrap == CallWrapLongitude

SpecWrap == InitWrap /\ [][NextWrap]_vars

----------------------------------------------------------------------------
----------------------------------------------------------------------------
(* The colour ramp: createColorRampData *)

\* const COLOR_RAMP_WIDTH = 256
COLOR_RAMP_WIDTH == 256

\* Stop positions are numerators over PosDen, so that sample i, at
\* i / (COLOR_RAMP_WIDTH - 1), is the position 2 * i, and 1/2 is a position
\* between two samples.
PosDen == 2 * (COLOR_RAMP_WIDTH - 1)

\* The most stops of a ramp handed to createColorRampData in SpecRamp.
MaxStops == 3

\* The positions of the stops of SpecRamp: 0, 0.2 (sample 51), 0.5, 1.
StopPositions == {0, PosDen \div 5, PosDen \div 2, PosDen}

\* The colours of the stops of SpecRamp; the last one has no alpha.
StopColors == {<<0, 0, 0, 255>>, <<255, 255, 255, 255>>, <<59, 130, 189>>}

\* type ColorStop = [number, Color]
ColorStops == StopPositions \X StopColors

Ramps == UNION {[1..n -> ColorStops] : n \in 1..MaxStops}

\* The floating point value NaN; every other number n is <<n>>.
NaN == <<0, 0>>

\* Math.round of the fraction num / den (den > 0): to the nearest integer,
\* a half upwards; of 0 / 0, NaN.
MathRound(num, den) ==
    IF den = 0 THEN NaN ELSE Some((2 * num + den) \div (2 * den))

\* A store into a Uint8Array: NaN is stored as 0, an integer modulo 256.
ToUint8(x) == IF x = NaN THEN 0 ELSE x[1] % 256

\* c[k] of a Color with three or four components (k from 0).
ColorAt(c, k) == IF k + 1 <= Len(c) THEN Some(c[k + 1]) ELSE Undefined

\* x ?? 255
OrDefault255(x) == IF x = Undefined THEN Some(255) ELSE x

\* [...colorRamp].sort((a, b) => a[0] - b[0]): a stable sort, by insertion.
RECURSIVE InsertStop(_, _)
InsertStop(sorted, stop) ==
    IF sorted = <<>> THEN <<stop>>
    ELSE IF sorted[Len(sorted)][1] <= stop[1] THEN Append(sorted, stop)
    ELSE Append(InsertStop(SubSeq(sorted, 1, Len(sorted) - 1), stop),
                sorted[Len(sorted)])

RECURSIVE SortStops(_)
SortStops(ramp) ==
    IF ramp = <<>> THEN <<>>
    ELSE InsertStop(SortStops(SubSeq(ramp, 1, Len(ramp) - 1)), ramp[Len(ramp)])

\* The body of `if (t >= t0 && t <= t1)`: localT = (t - t0) / (t1 - t0) and
\* the four rounded channels.
InterpolatedColor(s0, s1, t) ==
    LET den == s1[1] - s0[1]
        num == t - s0[1]
        mix(a, b) == MathRound(a * den + (b - a) * num, den)
    IN  <<mix(s0[2][1], s1[2][1]), mix(s0[2][2], s1[2][2]),
          mix(s0[2][3], s1[2][3]),
          mix(OrDefault255(ColorAt(s0[2], 3))[1],
              OrDefault255(ColorAt(s1[2], 3))[1])>>

\* A wrong sample: beyond the last stop the colour is not replaced.
SampleColor_NoEndClamp(sortedStops, t) ==
    LET n == Len(sortedStops)
        asColor(c) == [k \in 1..4 |-> ColorAt(c, k - 1)]
        hits == {j \in 1..(n - 1) :
                    t >= sortedStops[j][1] /\ t <= sortedStops[j + 1][1]}
        first == CHOOSE j \in hits : \A k \in hits : j <= k
    IN  IF hits = {} THEN asColor(sortedStops[1][2])
        ELSE InterpolatedColor(sortedStops[first], sortedStops[first + 1], t)

\* The colour of one sample: the first stop's colour, replaced by the
\* interpolation in the first bracket that holds t, replaced by the last
\* stop's colour beyond the last stop.
SampleColor(sortedStops, t) ==
    LET n == Len(sortedStops)
        asColor(c) == [k \in 1..4 |-> ColorAt(c, k - 1)]
        hits == {j \in 1..(n - 1) :
                    t >= sortedStops[j][1] /\ t <= sortedStops[j + 1][1]}
        first == CHOOSE j \in hits : \A k \in hits : j <= k
        color == IF hits = {} THEN asColor(sortedStops[1][2])
                 ELSE InterpolatedColor(sortedStops[first],
                                        sortedStops[first + 1], t)
    IN  IF t > sortedStops[n][1] THEN asColor(sortedStops[n][2]) ELSE color

\* createColorRampData: sample i (from 0) is entry i + 1, its four bytes
\* data[i * 4] .. data[i * 4 + 3] the entry's four components.
createColorRampData(colorRamp) ==
    LET sortedStops == SortStops(colorRamp)
    IN  [i \in 1..COLOR_RAMP_WIDTH |->
            LET color == SampleColor(sortedStops, 2 * (i - 1))
            IN  <<ToUint8(color[1]), ToUint8(color[2]), ToUint8(color[3]),
                  ToUint8(OrDefault255(color[4]))>>]

----------------------------------------------------------------------------
(* SpecRamp: createColorRampData applied to every ramp of a bounded set *)

InitRamp ==
    /\ IdleWrap
    /\ IdleVertex
    /\ IdleLayer
    /\ rampIn \in Ramps
    /\ rampOut = <<>>

CallCreateColorRampData ==
    /\ rampIn /= <<>>
    /\ rampOut = <<>>
    /\ rampOut' = createColorRampData(rampIn)
    /\ UNCHANGED <<rampIn, wrapVars, vertexVars, layerVars, auxVars>>

NextRamp == CallCreateColorRampData

SpecRamp == InitRamp /\ [][NextRamp]_vars

IsSortedRamp(ramp) == \A j \in 1..(Len(ramp) - 1) : ramp[j][1] <= ramp[j + 1][1]

\* The colour of a stop as four bytes (a missing alpha is 255).
StopBytes(stop) ==
    <<stop[2][1], stop[2][2], stop[2][3], OrDefault255(ColorAt(stop[2], 3))[1]>>

Between(x, a, b) == (a <= x /\ x <= b) \/ (b <= x /\ x <= a)

\* C7: for a ramp sorted ascending (ties allowed), a sample at a stop's
\* position holds that stop's colour (with tied stops, which share one
\* sample: the colour of a stop at that position), and a sample between two
\* consecutive stops holds, in each channel, a value between theirs.
C7_RampSampling ==
    (rampOut /= <<>> /\ IsSortedRamp(rampIn)) =>
        \A i \in 1..COLOR_RAMP_WIDTH :
            LET t == 2 * (i - 1) IN
            /\ (\E j \in 1..Len(rampIn) : rampIn[j][1] = t) =>
                   \E j \in 1..Len(rampIn) :
                       rampIn[j][1] = t /\ rampOut[i] = StopBytes(rampIn[j])
            /\ \A j \in 1..(Len(rampIn) - 1) :
                   (rampIn[j][1] <= t /\ t <= rampIn[j + 1][1]) =>
                       \A k \in 1..4 :
                           Between(rampOut[i][k], StopBytes(rampIn[j])[k],
                                   StopBytes(rampIn[j + 1])[k])

\* The first sample of a sorted ramp with two stops at position 0: the
\* bracket of the tied stops divides 0 by 0.
C7_TiedStopsSampled ==
    /\ rampOut /= <<>> /\ IsSortedRamp(rampIn) /\ Len(rampIn) = 3
    /\ rampIn[1] = <<0, <<255, 255, 255, 255>>>>
    /\ rampIn[2] = <<0, <<255, 255, 255, 255>>>>
    /\ rampOut[1] = <<0, 0, 0, 0>>

----------------------------------------------------------------------------
(* The transform shader: wind-particle-transform.glsl.ts *)

\* const vec2 DROP_POSITION = vec2(0)
DROP_POSITION == <<0, 0>>

\* The xy of a position <<x, y, z>>.
XY(position) == <<position[1], position[2]>>

\* Random points are numerators over PointDen in each coordinate.
PointDen == 2

\* Texture channels are numerators over TexDen (an 8-bit channel c is c/255).
TexDen == 255

\* The nearest grid value of num / den (den > 0), a half upwards.
Round(num, den) == (2 * num + den) \div (2 * den)

\* cos(radians(lat)) in thousandths, for |lat| <= 180, by the rational
\* approximation cos(x) = (32400 - 4 x^2) / (32400 + x^2) on [-90, 90].
CosMilli(lat) ==
    LET a == IF lat < 0 THEN -lat ELSE lat
        c(x) == (1000 * (32400 - 4 * x * x)) \div (32400 + x * x)
    IN  IF a <= 90 THEN c(a) ELSE -c(180 - a)

\* The textures of the model, as rows of texels [x, y, a, nan]: the first
\* two channels, alpha, and whether the first channel is NaN (a float
\* texture).  "texA" holds data everywhere, "texB" has a no-data texel and
\* "texNone" holds no data at all.
TextureData(image) ==
    CASE image = "texA" ->
            << [x |-> 255, y |-> 0, a |-> 255, nan |-> FALSE],
               [x |-> 0, y |-> 255, a |-> 255, nan |-> FALSE] >>
      [] image = "texB" ->
            << [x |-> 0, y |-> 0, a |-> 0, nan |-> TRUE],
               [x |-> 255, y |-> 128, a |-> 255, nan |-> FALSE] >>
      [] OTHER ->
            << [x |-> 0, y |-> 0, a |-> 0, nan |-> TRUE] >>

\* texture(windTexture, uv) with uv.x = uNum / uDen: the texel that holds
\* uv.x, clamped to the edge (the rows of the model's textures are alike).
texture(image, uNum, uDen) ==
    LET data == TextureData(image)
        w == Len(data)
        n == IF uDen < 0 THEN -uNum ELSE uNum
        d == IF uDen < 0 THEN -uDen ELSE uDen
        col == (n * w) \div d
    IN  data[IF col < 0 THEN 1 ELSE IF col >= w THEN w ELSE col + 1]

\* float randFloat(vec2 seed): a fixed hash into [0, 1].  The model keeps
\* that it is a function of its argument alone and takes every value of
\* the grid: digit number `salt` of the key in base PointDen + 1.
randFloat(key, salt) ==
    IF salt = 1 THEN key % (PointDen + 1)
    ELSE (key \div (PointDen + 1)) % (PointDen + 1)

\* vec2 randPoint(vec2 seed): two draws, from seed + 1.3 and seed + 2.1
randPoint(key) == <<randFloat(key, 1), randFloat(key, 2)>>

\* smoothstep(0, 1, k / PointDen), as a numerator over PointDen^3
smoothstep01(k) == k * k * (3 * PointDen - 2 * k)

\* mix(a, b, num / den), on the grid
mix(a, b, num, den) == Round(a * (den - num) + b * num, den)

\* A wrong reseed: the point is placed in the field's bounds.
pointToPosition_FieldBounds(point, wind) ==
    LET y == smoothstep01(point[2])
        den3 == PointDen * PointDen * PointDen
    IN  <<mix(wind.bounds[1], wind.bounds[3], point[1], PointDen),
          mix(wind.bounds[2], wind.bounds[4], y, den3)>>

\* vec2 pointToPosition(vec2 point)
pointToPosition(point, wind) ==
    LET y == smoothstep01(point[2])
        den3 == PointDen * PointDen * PointDen
    IN  <<mix(wind.viewportBounds[1], wind.viewportBounds[3], point[1], PointDen),
          mix(wind.viewportBounds[2], wind.viewportBounds[4], y, den3)>>

\* bool isPositionInBounds(vec2 position, vec4 bounds)
isPositionInBounds(position, bounds) ==
    LET lng == glslWrapLongitudeMin(position[1], bounds[1])
        lat == position[2]
    IN  /\ bounds[1] <= lng /\ lng <= bounds[3]
        /\ bounds[2] <= lat /\ lat <= bounds[4]

\* bool isPositionInViewport(vec2 position)
isPositionInViewport(position, wind) ==
    isPositionInBounds(position, wind.viewportBounds)

\* A wrong test of the sample: every sample counts as data.
rasterHasValues_Always(values, wind) == TRUE

\* bool rasterHasValues(vec4 values)
rasterHasValues(values, wind) ==
    IF wind.imageUnscale[1] < wind.imageUnscale[2]
    THEN values.a >= TexDen
    ELSE ~values.nan

\* vec2 rasterGetValues(vec4 colour), as numerators over TexDen
rasterGetValues(colour, wind) ==
    IF wind.imageUnscale[1] < wind.imageUnscale[2]
    THEN <<wind.imageUnscale[1] * (TexDen - colour.x) + wind.imageUnscale[2] * colour.x,
           wind.imageUnscale[1] * (TexDen - colour.y) + wind.imageUnscale[2] * colour.y>>
    ELSE <<colour.x, colour.y>>

\* A wrong offset: the distortion is applied to the east-west component.
updatedPosition_DistortX(position, speedNum, den) ==
    LET distortion == CosMilli(position[2])
    IN  <<position[1] + Round(speedNum[1] * distortion, den * 1000),
          position[2] + Round(speedNum[2], den)>>

\* vec2 updatedPosition(vec2 position, vec2 speed), speed = num / den
updatedPosition(position, speedNum, den) ==
    LET distortion == CosMilli(position[2])
    IN  <<position[1] + Round(speedNum[1], den),
          position[2] + Round(speedNum[2] * distortion, den * 1000)>>

\* float particleIndex = mod(float(gl_VertexID), wind.numParticles)
particleIndex(gl_VertexID, wind) == GlslMod(gl_VertexID, wind.numParticles)

\* A wrong zoom test: `> 1` for `>= 1`.
isZoomDropped_Strict(index, wind) ==
    LET f == wind.viewportZoomChangeFactor
    IN  f[1] > f[2] /\ (index * f[2]) % f[1] > f[2]

\* wind.viewportZoomChangeFactor > 1.f &&
\* mod(particleIndex, wind.viewportZoomChangeFactor) >= 1.f,
\* the factor being the fraction f[1] / f[2]
isZoomDropped(index, wind) ==
    LET f == wind.viewportZoomChangeFactor
    IN  f[1] > f[2] /\ (index * f[2]) % f[1] >= f[2]

\* Time is a numerator over TimeDen.
TimeDen == 2

\* A wrong age test: the period is maxAge + 3.
isAgeDropped_WrongPeriod(index, wind) ==
    LET m == wind.maxAge + 3
        d == TimeDen * GlslMod(index, m) - GlslMod(wind.time, TimeDen * m)
    IN  (IF d < 0 THEN -d ELSE d) < TimeDen

\* abs(mod(particleIndex, wind.maxAge + 2.f) - mod(wind.time, wind.maxAge + 2.f)) < 1.f
isAgeDropped(index, wind) ==
    LET m == wind.maxAge + 2
        d == TimeDen * GlslMod(index, m) - GlslMod(wind.time, TimeDen * m)
    IN  (IF d < 0 THEN -d ELSE d) < TimeDen

\* The sample of the field at a position: getUV and texture()
windColour(position, wind) ==
    texture(wind.windTexture, position[1] - wind.bounds[1],
            wind.bounds[3] - wind.bounds[1])

\* A wrong order of the rules: the two culls before the test of the
\* sentinel.
mainRule_CullBeforeReseed(gl_VertexID, sourcePosition, wind) ==
    LET index == particleIndex(gl_VertexID, wind)
        xy == XY(sourcePosition)
    IN  IF isZoomDropped(index, wind) THEN "zoomDrop"
        ELSE IF isAgeDropped(index, wind) THEN "ageDrop"
        ELSE IF xy = DROP_POSITION THEN "reseed"
        ELSE IF ~isPositionInBounds(xy, wind.bounds) THEN "freeze"
        ELSE IF ~isPositionInViewport(xy, wind) THEN "viewportDrop"
        ELSE IF ~rasterHasValues(windColour(xy, wind), wind) THEN "noDataDrop"
        ELSE "advect"

\* A wrong order of the rules: the viewport test before the field test.
mainRule_ViewportBeforeFreeze(gl_VertexID, sourcePosition, wind) ==
    LET index == particleIndex(gl_VertexID, wind)
        xy == XY(sourcePosition)
    IN  IF xy = DROP_POSITION THEN "reseed"
        ELSE IF isZoomDropped(index, wind) THEN "zoomDrop"
        ELSE IF isAgeDropped(index, wind) THEN "ageDrop"
        ELSE IF ~isPositionInViewport(xy, wind) THEN "viewportDrop"
        ELSE IF ~isPositionInBounds(xy, wind.bounds) THEN "freeze"
        ELSE IF ~rasterHasValues(windColour(xy, wind), wind) THEN "noDataDrop"
        ELSE "advect"

\* The return statement of main() that a vertex of generation 0 reaches.
mainRule(gl_VertexID, sourcePosition, wind) ==
    LET index == particleIndex(gl_VertexID, wind)
        xy == XY(sourcePosition)
    IN  IF xy = DROP_POSITION THEN "reseed"
        ELSE IF isZoomDropped(index, wind) THEN "zoomDrop"
        ELSE IF isAgeDropped(index, wind) THEN "ageDrop"
        ELSE IF ~isPositionInBounds(xy, wind.bounds) THEN "freeze"
        ELSE IF ~isPositionInViewport(xy, wind) THEN "viewportDrop"
        ELSE IF ~rasterHasValues(windColour(xy, wind), wind) THEN "noDataDrop"
        ELSE "advect"

\* Whether main() evaluates texture(windTexture, uv) for the vertex.
samplesTexture(gl_VertexID, sourcePosition, wind) ==
    mainRule(gl_VertexID, sourcePosition, wind) \in {"noDataDrop", "advect"}

\* The branch `if (sourcePosition.xy == DROP_POSITION)`; the particle seed
\* particleIndex * wind.seed / wind.numParticles is the key index * seed.
reseedPosition(index, wind) ==
    LET position == pointToPosition(randPoint(index * wind.seed), wind)
    IN  <<glslWrapLongitude(position[1]), position[2]>>

\* A wrong advection: the longitude is not wrapped.
advectedPosition_NoWrap(xy, wind) ==
    LET values == rasterGetValues(windColour(xy, wind), wind)
    IN  updatedPosition(xy,
            <<values[1] * wind.speedFactor[1], values[2] * wind.speedFactor[1]>>,
            TexDen * wind.speedFactor[2])

\* The last three statements of main().
advectedPosition(xy, wind) ==
    LET values == rasterGetValues(windColour(xy, wind), wind)
        position == updatedPosition(xy,
                        <<values[1] * wind.speedFactor[1],
                          values[2] * wind.speedFactor[1]>>,
                        TexDen * wind.speedFactor[2])
    IN  <<glslWrapLongitude(position[1]), position[2]>>

\* void main(): targetPosition for a vertex of generation 0.  The z
\* component is never assigned; a WebGL context zero-initialises outputs.
main(gl_VertexID, sourcePosition, wind) ==
    LET rule == mainRule(gl_VertexID, sourcePosition, wind)
        xy == CASE rule = "reseed" ->
                      reseedPosition(particleIndex(gl_VertexID, wind), wind)
                 [] rule = "freeze" -> XY(sourcePosition)
                 [] rule = "advect" -> advectedPosition(XY(sourcePosition), wind)
                 [] OTHER -> DROP_POSITION
    IN  <<xy[1], xy[2], 0>>

----------------------------------------------------------------------------
(* The viewport bounds window *)

Max(a, b) == IF a >= b THEN a ELSE b

Min(a, b) == IF a <= b THEN a ELSE b

\* A wrong wrapBounds: the east edge is wrapped on its own, not relative to
\* the west edge.
wrapBounds_EastFree(bounds) ==
    LET minLng == IF bounds[3] - bounds[1] < 360
                  THEN wrapLongitude(bounds[1], Undefined) ELSE -180
        maxLng == IF bounds[3] - bounds[1] < 360
                  THEN wrapLongitude(bounds[3], Undefined) ELSE 180
        minLat == Max(bounds[2], -90)
        maxLat == Min(bounds[4], 90)
    IN  <<minLng, minLat, maxLng, maxLat>>

\* function wrapBounds(bounds)
wrapBounds(bounds) ==
    LET minLng == IF bounds[3] - bounds[1] < 360
                  THEN wrapLongitude(bounds[1], Undefined) ELSE -180
        maxLng == IF bounds[3] - bounds[1] < 360
                  THEN wrapLongitude(bounds[3], Some(minLng)) ELSE 180
        minLat == Max(bounds[2], -90)
        maxLat == Min(bounds[4], 90)
    IN  <<minLng, minLat, maxLng, maxLat>>

\* The rectangles viewport.getBounds() returns in the model: the whole
\* world and more, a window around the origin, two windows across the
\* antimeridian, and a window that ends at 180.
ViewportRects ==
    { <<-200, -100, 200, 100>>, <<-20, -10, 20, 10>>, <<170, -10, 190, 30>>,
      <<-190, -95, -150, 0>>, <<0, 0, 180, 60>> }

\* function getViewportBounds(viewport)
getViewportBounds(rect) == wrapBounds(rect)

\* 2 ** e as the fraction <<numerator, denominator>>
Pow2(e) == IF e >= 0 THEN <<2 ^ e, 1>> ELSE <<1, 2 ^ (-e)>>

----------------------------------------------------------------------------
(* SpecVertex: one run of main() on one vertex, for inputs of bounded sets *)

\* The largest gl_VertexID of SpecVertex; numParticles is one more.
MaxVertex == 5

\* The maxAge uniform of SpecVertex.
VertexMaxAge == 2

\* The largest time of SpecVertex, in units of 1 / TimeDen.
MaxVertexTime == 5

\* The largest seed of SpecVertex.
MaxVertexSeed == 3

\* The props bounds of the model: the default and a window at the origin.
FieldBounds == { <<-180, -90, 180, 90>>, <<-20, -10, 20, 10>> }

\* The source positions of SpecVertex, the sentinel first.
SourcePositions ==
    { <<0, 0, 0>>, <<0, 5, 0>>, <<10, 0, 0>>, <<15, 5, 0>>, <<-175, 10, 0>>,
      <<175, -5, 0>>, <<90, 45, 0>>, <<-30, -60, 0>>, <<179, 60, 0>> }

\* The exponents e of the zoom change factors 2 ** e of SpecVertex.
ZoomExponents == {-4, 0, 1, 2, 4}

\* image, imageUnscale and the speed factor of SpecVertex.
FieldConfigs ==
    { <<"texA", <<-1, 1>>, <<5, 1>>>>, <<"texB", <<-10, 10>>, <<1, 2>>>>,
      <<"texB", <<0, 0>>, <<10, 1>>>>, <<"texA", <<0, 1>>, <<5, 1>>>> }

WindUniforms(rect, bounds, time, e, seed, config) ==
    [ numParticles |-> MaxVertex + 1,
      maxAge |-> VertexMaxAge,
      speedFactor |-> config[3],
      time |-> time,
      seed |-> seed,
      viewportBounds |-> getViewportBounds(rect),
      viewportZoomChangeFactor |-> Pow2(e),
      imageUnscale |-> config[2],
      bounds |-> bounds,
      windTexture |-> config[1] ]

InitVertex ==
    /\ IdleWrap
    /\ IdleRamp
    /\ IdleLayer
    /\ vsOut = <<>>
    /\ \E id \in 0..MaxVertex, rect \in ViewportRects,
          time \in 0..MaxVertexTime, e \in ZoomExponents :
          \/ \E seed \in 0..MaxVertexSeed :
                vsIn = [ id |-> id, source |-> <<0, 0, 0>>,
                         wind |-> WindUniforms(rect, <<-180, -90, 180, 90>>,
                                     time, e, seed, <<"texA", <<-1, 1>>, <<5, 1>>>>) ]
          \/ \E source \in SourcePositions, bounds \in FieldBounds,
                config \in FieldConfigs :
                vsIn = [ id |-> id, source |-> source,
                         wind |-> WindUniforms(rect, bounds, time, e, 0, config) ]

\* transform.run() for one vertex
RunVertex ==
    /\ vsIn /= <<>>
    /\ vsOut = <<>>
    /\ vsOut' = [ target |-> main(vsIn.id, vsIn.source, vsIn.wind),
                  rule |-> mainRule(vsIn.id, vsIn.source, vsIn.wind),
                  sampled |-> samplesTexture(vsIn.id, vsIn.source, vsIn.wind) ]
    /\ UNCHANGED <<vsIn, wrapVars, rampVars, layerVars, auxVars>>

NextVertex == RunVertex

SpecVertex == InitVertex /\ [][NextVertex]_vars

----------------------------------------------------------------------------
(* The layer: props, state and GPU resources *)

\* const defaultColorRamp, the positions over PosDen
defaultColorRamp ==
    << <<0, <<59, 130, 189, 255>>>>,
       <<PosDen \div 10, <<102, 194, 165, 255>>>>,
       <<(2 * PosDen) \div 10, <<171, 221, 164, 255>>>>,
       <<(3 * PosDen) \div 10, <<230, 245, 152, 255>>>>,
       <<(4 * PosDen) \div 10, <<254, 224, 139, 255>>>>,
       <<(5 * PosDen) \div 10, <<253, 174, 97, 255>>>>,
       <<(6 * PosDen) \div 10, <<244, 109, 67, 255>>>>,
       <<PosDen, <<213, 62, 79, 255>>>> >>

\* A ramp of the README's scenario: black to white.
TwoStopRamp == << <<0, <<0, 0, 0, 255>>>>, <<PosDen, <<255, 255, 255, 255>>>> >>

\* The tables of the ramps of the model.
DefaultRampData == createColorRampData(defaultColorRamp)

TwoStopRampData == createColorRampData(TwoStopRamp)

\* createColorRampData(colorRamp || defaultColorRamp) for a colorRamp prop
\* [id, stops]: id is the identity of the array, stops the name of its
\* contents ("default" or "twoStop").
colorRampData(colorRamp) ==
    IF colorRamp.stops = "default" THEN DefaultRampData ELSE TwoStopRampData

\* The props of a layer of the model: a loaded field, one lane, three
\* generations.
BaseProps ==
    [ image |-> "texA", numParticles |-> 1, maxAge |-> 3, width |-> 1,
      colorRamp |-> [id |-> 1, stops |-> "default"],
      animate |-> TRUE, bounds |-> <<-180, -90, 180, 90>>,
      imageUnscale |-> <<-1, 1>>, speedFactor |-> 500 ]

\* The props handed to the layer in Spec: BaseProps and its variants in
\* one or two fields (no image, an image still loading, another image on a
\* smaller field, a zero count, age or width, other sizes, another width,
\* the same ramp in another array, another ramp, no animation).
PropsSet ==
    { BaseProps,
      [BaseProps EXCEPT !.image = "null"],
      [BaseProps EXCEPT !.image = "url"],
      [BaseProps EXCEPT !.image = "texB", !.bounds = <<-20, -10, 20, 10>>],
      [BaseProps EXCEPT !.numParticles = 0],
      [BaseProps EXCEPT !.maxAge = 0],
      [BaseProps EXCEPT !.width = 0],
      [BaseProps EXCEPT !.numParticles = 2, !.maxAge = 2],
      [BaseProps EXCEPT !.width = 2],
      [BaseProps EXCEPT !.colorRamp = [id |-> 2, stops |-> "default"]],
      [BaseProps EXCEPT !.colorRamp = [id |-> 3, stops |-> "twoStop"]],
      [BaseProps EXCEPT !.animate = FALSE] }

\* typeof image === 'string' || image === null
isNotLoaded(image) == image \in {"null", "url"}

\* this.state before initializeState has assigned anything: every field
\* undefined (a handle 0, a number 0, a flag FALSE).
NoState ==
    [ initialized |-> FALSE, numInstances |-> 0, numAgedInstances |-> 0,
      sourcePositions |-> 0, targetPositions |-> 0, colors |-> 0,
      transform |-> 0, texture |-> "null", colorRampTexture |-> 0,
      widths |-> 0, previousViewportZoom |-> 0, previousTime |-> 0,
      stepRequested |-> FALSE ]

\* The most resources created in one behaviour (five per set-up).
MaxResources == 15

\* The largest time of the timeline, in units of 1 / TimeDen.
MaxTime == 3

\* The largest seed (Math.random()) of a step.
MaxSeed == 1

\* The viewports of the model, getBounds() and zoom (in quarters of a
\* level): the whole world at levels 0 and 1/2 and a window across the
\* antimeridian.
Viewports ==
    { [rect |-> <<-200, -100, 200, 100>>, zoom |-> 0],
      [rect |-> <<-200, -100, 200, 100>>, zoom |-> 2],
      [rect |-> <<170, -10, 190, 30>>, zoom |-> 0] }

\* resource.destroy(): the memory is released, the call is counted.
destroy(hp, h) ==
    IF h = 0 THEN hp
    ELSE [hp EXCEPT ![h] = [@ EXCEPT !.destroyed = @ + 1, !.data = <<>>]]

\* A wrong teardown: the target buffer is not destroyed.
deleteTransformFeedback_Leak(st, hp) ==
    IF ~st.initialized THEN <<st, hp>>
    ELSE << [st EXCEPT !.initialized = FALSE, !.sourcePositions = 0,
                       !.targetPositions = 0, !.colors = 0, !.transform = 0,
                       !.colorRampTexture = 0],
            destroy(destroy(destroy(destroy(hp, st.sourcePositions),
                st.colors), st.transform), st.colorRampTexture) >>

\* A wrong teardown: the resources are destroyed, the state is left as is.
deleteTransformFeedback_NoSetState(st, hp) ==
    IF ~st.initialized THEN <<st, hp>>
    ELSE << st,
            destroy(destroy(destroy(destroy(destroy(hp, st.sourcePositions),
                st.targetPositions), st.colors), st.transform),
                st.colorRampTexture) >>

\* _deleteTransformFeedback(): the new state and heap
deleteTransformFeedback(st, hp) ==
    IF ~st.initialized THEN <<st, hp>>
    ELSE << [st EXCEPT !.initialized = FALSE, !.sourcePositions = 0,
                       !.targetPositions = 0, !.colors = 0, !.transform = 0,
                       !.colorRampTexture = 0],
            destroy(destroy(destroy(destroy(destroy(hp, st.sourcePositions),
                st.targetPositions), st.colors), st.transform),
                st.colorRampTexture) >>

\* new Float32Array(numInstances * 3): numInstances slots of three zeros
zeroPositions(numInstances) == [i \in 1..numInstances |-> <<0, 0, 0>>]

\* The colour buffer's data: [1, 1, 1, 1 - age / maxAge] per instance, the
\* alpha as the fraction <<maxAge - age, maxAge>>.
instanceColors(numInstances, numParticles, maxAge) ==
    [i \in 1..numInstances |->
        LET age == (i - 1) \div numParticles
        IN  <<1, 1, 1, <<maxAge - age, maxAge>>>>]

\* A wrong set-up: the aged instances counted as all instances.
createTransformFeedback_AgedAll(st, hp, pr) ==
    LET numInstances == pr.numParticles * pr.maxAge
        n == Len(hp)
    IN  << [st EXCEPT !.initialized = TRUE, !.numInstances = numInstances,
                      !.numAgedInstances = numInstances,
                      !.sourcePositions = n + 1, !.targetPositions = n + 2,
                      !.colors = n + 3, !.widths = pr.width,
                      !.transform = n + 5, !.texture = pr.image,
                      !.colorRampTexture = n + 4,
                      !.previousViewportZoom = 0, !.previousTime = 0],
            hp \o << [kind |-> "buffer", destroyed |-> 0,
                      data |-> zeroPositions(numInstances)],
                     [kind |-> "buffer", destroyed |-> 0,
                      data |-> zeroPositions(numInstances)],
                     [kind |-> "buffer", destroyed |-> 0,
                      data |-> instanceColors(numInstances, pr.numParticles, pr.maxAge)],
                     [kind |-> "texture", destroyed |-> 0,
                      data |-> pr.colorRamp.stops],
                     [kind |-> "transform", destroyed |-> 0,
                      data |-> [sourcePosition |-> n + 1, targetPosition |-> n + 2,
                                vertexCount |-> pr.numParticles]] >> >>

\* The second half of _setupTransformFeedback(), lines 377-450: the two
\* position buffers, the colour buffer, the ramp texture and the transform
\* are created in this order, then setState.  The ramp texture's record
\* names the ramp whose table, colorRampData, is its contents.
createTransformFeedback(st, hp, pr) ==
    LET numInstances == pr.numParticles * pr.maxAge
        numAgedInstances == pr.numParticles * (pr.maxAge - 1)
        n == Len(hp)
    IN  << [st EXCEPT !.initialized = TRUE, !.numInstances = numInstances,
                      !.numAgedInstances = numAgedInstances,
                      !.sourcePositions = n + 1, !.targetPositions = n + 2,
                      !.colors = n + 3, !.widths = pr.width,
                      !.transform = n + 5, !.texture = pr.image,
                      !.colorRampTexture = n + 4,
                      !.previousViewportZoom = 0, !.previousTime = 0],
            hp \o << [kind |-> "buffer", destroyed |-> 0,
                      data |-> zeroPositions(numInstances)],
                     [kind |-> "buffer", destroyed |-> 0,
                      data |-> zeroPositions(numInstances)],
                     [kind |-> "buffer", destroyed |-> 0,
                      data |-> instanceColors(numInstances, pr.numParticles, pr.maxAge)],
                     [kind |-> "texture", destroyed |-> 0,
                      data |-> pr.colorRamp.stops],
                     [kind |-> "transform", destroyed |-> 0,
                      data |-> [sourcePosition |-> n + 1, targetPosition |-> n + 2,
                                vertexCount |-> pr.numParticles]] >> >>

\* A wrong set-up: the image is not tested.
setupTransformFeedback_NoImageTest(st, hp, pr) ==
    LET d == IF st.initialized THEN deleteTransformFeedback(st, hp) ELSE <<st, hp>>
    IN  createTransformFeedback(d[1], d[2], pr)

\* _setupTransformFeedback(): the new state and heap
setupTransformFeedback(st, hp, pr) ==
    LET d == IF st.initialized THEN deleteTransformFeedback(st, hp) ELSE <<st, hp>>
    IN  IF isNotLoaded(pr.image) THEN d
        ELSE createTransformFeedback(d[1], d[2], pr)

\* Whether a call of _setupTransformFeedback() creates resources.
setupCreates(pr) == ~isNotLoaded(pr.image)

\* The bytes of one slot: three 32-bit floats (`* 4 * 3`).
SlotBytes == 4 * 3

\* 2 ** (q / 4) for a zoom of q quarter levels, as a fraction; the fourth
\* roots of 2 in hundredths.
Pow2Quarter(q) ==
    LET root == <<100, 119, 141, 168>>
    IN  <<(2 ^ (q \div 4)) * root[(q % 4) + 1], 100>>

RECURSIVE GCD(_, _)
GCD(a, b) == IF b = 0 THEN a ELSE GCD(b, a % b)

\* const currentSpeedFactor = (speedFactor * 0.01) / Math.pow(2, viewport.zoom),
\* as a fraction in lowest terms
currentSpeedFactor(speedFactor, zoom) ==
    LET p == Pow2Quarter(zoom)
        num == speedFactor * p[2]
        den == 100 * p[1]
        g == GCD(num, den)
    IN  IF g = 0 THEN <<0, 1>> ELSE <<num \div g, den \div g>>

\* A wrong transform: the result is written into the buffer it reads.
runTransform_InPlace(hp, transform, wind) ==
    LET tr == hp[transform].data
        source == hp[tr.sourcePosition].data
    IN  [hp EXCEPT
            ![tr.sourcePosition] = [@ EXCEPT !.data =
                [i \in 1..Len(@) |->
                    IF i <= tr.vertexCount
                    THEN main(i - 1, source[i], wind)
                    ELSE @[i]]]]

\* transform.run(): main() on the vertices 0 .. vertexCount - 1 of the
\* buffer bound as sourcePosition, into the buffer bound as targetPosition
runTransform(hp, transform, wind) ==
    LET tr == hp[transform].data
        source == hp[tr.sourcePosition].data
    IN  [hp EXCEPT
            ![tr.targetPosition] = [@ EXCEPT !.data =
                [i \in 1..Len(@) |->
                    IF i <= tr.vertexCount /\ i <= Len(source)
                    THEN main(i - 1, source[i], wind)
                    ELSE @[i]]]]

\* A wrong copy: the destination offset is ignored.
copyBufferToBuffer_NoOffset(hp, sourceBuffer, sourceOffset, destinationBuffer, destinationOffset, size) ==
    LET s0 == sourceOffset \div SlotBytes
        n == size \div SlotBytes
        source == hp[sourceBuffer].data
    IN  IF n < 0 \/ s0 + n > Len(source) \/ n > Len(hp[destinationBuffer].data)
        THEN hp
        ELSE [hp EXCEPT ![destinationBuffer] = [@ EXCEPT !.data =
                [i \in 1..Len(@) |->
                    IF i <= n THEN source[i + s0] ELSE @[i]]]]

\* encoder.copyBufferToBuffer({...}), the offsets and the size in bytes; a
\* range outside either buffer is an error and nothing is copied.
copyBufferToBuffer(hp, sourceBuffer, sourceOffset, destinationBuffer, destinationOffset, size) ==
    LET s0 == sourceOffset \div SlotBytes
        d0 == destinationOffset \div SlotBytes
        n == size \div SlotBytes
        source == hp[sourceBuffer].data
    IN  IF n < 0 \/ s0 + n > Len(source) \/ d0 + n > Len(hp[destinationBuffer].data)
        THEN hp
        ELSE [hp EXCEPT ![destinationBuffer] = [@ EXCEPT !.data =
                [i \in 1..Len(@) |->
                    IF d0 < i /\ i <= d0 + n THEN source[i - d0 + s0] ELSE @[i]]]]

\* Wrong uniforms: the factor grows with the zoom.
moduleUniforms_ZoomIn(st, pr, viewport, time, seed) ==
    [ windTexture |-> st.texture,
      viewportBounds |-> getViewportBounds(viewport.rect),
      viewportZoomChangeFactor |-> Pow2(viewport.zoom - st.previousViewportZoom),
      imageUnscale |-> pr.imageUnscale,
      bounds |-> pr.bounds,
      numParticles |-> pr.numParticles,
      maxAge |-> pr.maxAge,
      speedFactor |-> currentSpeedFactor(pr.speedFactor, viewport.zoom),
      time |-> time,
      seed |-> seed ]

\* The uniforms of a step (moduleUniforms), lines 477-494.
moduleUniforms(st, pr, viewport, time, seed) ==
    [ windTexture |-> st.texture,
      viewportBounds |-> getViewportBounds(viewport.rect),
      viewportZoomChangeFactor |-> Pow2(st.previousViewportZoom - viewport.zoom),
      imageUnscale |-> pr.imageUnscale,
      bounds |-> pr.bounds,
      numParticles |-> pr.numParticles,
      maxAge |-> pr.maxAge,
      speedFactor |-> currentSpeedFactor(pr.speedFactor, viewport.zoom),
      time |-> time,
      seed |-> seed ]

\* Whether _runTransformFeedback() gets past its two early returns.
stepIsEffective(st, time) == st.initialized /\ time /= st.previousTime

\* A wrong step: the handles of the state are exchanged, the bindings of
\* the transform are not.
runTransformFeedback_NoRebind(st, hp, pr, viewport, time, seed) ==
    IF ~stepIsEffective(st, time) THEN <<st, hp>>
    ELSE
        LET wind == moduleUniforms(st, pr, viewport, time, seed)
            hp1 == runTransform(hp, st.transform, wind)
            hp2 == copyBufferToBuffer(hp1, st.sourcePositions, 0,
                       st.targetPositions, pr.numParticles * SlotBytes,
                       st.numAgedInstances * SlotBytes)
        IN  << [st EXCEPT !.sourcePositions = st.targetPositions,
                          !.targetPositions = st.sourcePositions,
                          !.previousViewportZoom = viewport.zoom,
                          !.previousTime = time],
               hp2 >>

\* A wrong step: the zoom is recorded before the test of the time.
runTransformFeedback_ZoomBeforeTimeTest(st, hp, pr, viewport, time, seed) ==
    IF ~st.initialized THEN <<st, hp>>
    ELSE IF time = st.previousTime
    THEN <<[st EXCEPT !.previousViewportZoom = viewport.zoom], hp>>
    ELSE
        LET wind == moduleUniforms(st, pr, viewport, time, seed)
            hp1 == runTransform(hp, st.transform, wind)
            hp2 == copyBufferToBuffer(hp1, st.sourcePositions, 0,
                       st.targetPositions, pr.numParticles * SlotBytes,
                       st.numAgedInstances * SlotBytes)
            hp3 == [hp2 EXCEPT ![st.transform] = [@ EXCEPT !.data =
                       [@ EXCEPT !.sourcePosition = st.targetPositions,
                                 !.targetPosition = st.sourcePositions]]]
        IN  << [st EXCEPT !.sourcePositions = st.targetPositions,
                          !.targetPositions = st.sourcePositions,
                          !.previousViewportZoom = viewport.zoom,
                          !.previousTime = time],
               hp3 >>

\* A wrong step: the copy is left out.
runTransformFeedback_NoCopy(st, hp, pr, viewport, time, seed) ==
    IF ~stepIsEffective(st, time) THEN <<st, hp>>
    ELSE
        LET wind == moduleUniforms(st, pr, viewport, time, seed)
            hp1 == runTransform(hp, st.transform, wind)
            hp3 == [hp1 EXCEPT ![st.transform] = [@ EXCEPT !.data =
                       [@ EXCEPT !.sourcePosition = st.targetPositions,
                                 !.targetPosition = st.sourcePositions]]]
        IN  << [st EXCEPT !.sourcePositions = st.targetPositions,
                          !.targetPositions = st.sourcePositions,
                          !.previousViewportZoom = viewport.zoom,
                          !.previousTime = time],
               hp3 >>

\* A wrong step: the copy reads the buffer that the transform has just
\* written.
runTransformFeedback_CopyFromTarget(st, hp, pr, viewport, time, seed) ==
    IF ~stepIsEffective(st, time) THEN <<st, hp>>
    ELSE
        LET wind == moduleUniforms(st, pr, viewport, time, seed)
            hp1 == runTransform(hp, st.transform, wind)
            hp2 == copyBufferToBuffer(hp1, st.targetPositions, 0,
                       st.targetPositions, pr.numParticles * SlotBytes,
                       st.numAgedInstances * SlotBytes)
            hp3 == [hp2 EXCEPT ![st.transform] = [@ EXCEPT !.data =
                       [@ EXCEPT !.sourcePosition = st.targetPositions,
                                 !.targetPosition = st.sourcePositions]]]
        IN  << [st EXCEPT !.sourcePositions = st.targetPositions,
                          !.targetPositions = st.sourcePositions,
                          !.previousViewportZoom = viewport.zoom,
                          !.previousTime = time],
               hp3 >>

\* _runTransformFeedback(): the new state and heap.  The transform runs,
\* the copy is encoded, then the handles and the transform's bindings are
\* exchanged.
runTransformFeedback(st, hp, pr, viewport, time, seed) ==
    IF ~stepIsEffective(st, time) THEN <<st, hp>>
    ELSE
        LET wind == moduleUniforms(st, pr, viewport, time, seed)
            hp1 == runTransform(hp, st.transform, wind)
            hp2 == copyBufferToBuffer(hp1, st.sourcePositions, 0,
                       st.targetPositions, pr.numParticles * SlotBytes,
                       st.numAgedInstances * SlotBytes)
            hp3 == [hp2 EXCEPT ![st.transform] = [@ EXCEPT !.data =
                       [@ EXCEPT !.sourcePosition = st.targetPositions,
                                 !.targetPosition = st.sourcePositions]]]
        IN  << [st EXCEPT !.sourcePositions = st.targetPositions,
                          !.targetPositions = st.sourcePositions,
                          !.previousViewportZoom = viewport.zoom,
                          !.previousTime = time],
               hp3 >>

\* A wrong reset: only the source buffer is zeroed.
resetTransformFeedback_SourceOnly(st, hp) ==
    IF ~st.initialized THEN hp
    ELSE [hp EXCEPT ![st.sourcePositions] =
                        [@ EXCEPT !.data = zeroPositions(st.numInstances)]]

\* _resetTransformFeedback(): the new heap
resetTransformFeedback(st, hp) ==
    IF ~st.initialized THEN hp
    ELSE [hp EXCEPT ![st.sourcePositions] =
                        [@ EXCEPT !.data = zeroPositions(st.numInstances)],
                    ![st.targetPositions] =
                        [@ EXCEPT !.data = zeroPositions(st.numInstances)]]

\* A wrong drop test: only the source endpoint is compared.
vDrop_SourceOnly(source, target) ==
    IF XY(source) = DROP_POSITION THEN 1 ELSE 0

\* A wrong drop test: both endpoints must be the sentinel.
vDrop_Both(source, target) ==
    IF XY(source) = DROP_POSITION /\ XY(target) = DROP_POSITION THEN 1 ELSE 0

\* vDrop = float(instanceSourcePositions.xy == DROP_POSITION ||
\*               instanceTargetPositions.xy == DROP_POSITION)
vDrop(source, target) ==
    IF XY(source) = DROP_POSITION \/ XY(target) = DROP_POSITION THEN 1 ELSE 0

\* The draw call of an initialized layer: one segment per instance, from
\* the source to the target buffer, discarded `if (vDrop > 0.5)`.
drawSegments(st, hp) ==
    [i \in 1..st.numInstances |->
        LET source == hp[st.sourcePositions].data[i]
            target == hp[st.targetPositions].data[i]
        IN  [ source |-> source, target |-> target,
              discarded |-> 2 * vDrop(source, target) > 1 ]]

\* A wrong debounce: the pending flag is not tested.
requestStep_NoGuard(st, tm) == <<[st EXCEPT !.stepRequested = TRUE], tm + 1>>

\* A wrong request: the flag is set and no timer is started.
requestStep_NoTimer(st, tm) ==
    IF st.stepRequested THEN <<st, tm>>
    ELSE <<[st EXCEPT !.stepRequested = TRUE], tm>>

\* requestStep(): the new state and the new number of pending timers
requestStep(st, tm) ==
    IF st.stepRequested THEN <<st, tm>>
    ELSE <<[st EXCEPT !.stepRequested = TRUE], tm + 1>>

\* A wrong draw: a step is requested whatever animate is.
draw_AlwaysRequests(st, hp, pr, tm) ==
    IF ~st.initialized
    THEN [rendered |-> <<>>, state |-> st, timers |-> tm]
    ELSE LET r == requestStep(st, tm)
         IN  [rendered |-> drawSegments(st, hp), state |-> r[1], timers |-> r[2]]

\* draw(): the segments of the frame (none when the state is not
\* initialized), the new state and the new number of pending timers
draw(st, hp, pr, tm) ==
    IF ~st.initialized
    THEN [rendered |-> <<>>, state |-> st, timers |-> tm]
    ELSE LET r == IF pr.animate THEN requestStep(st, tm) ELSE <<st, tm>>
         IN  [rendered |-> drawSegments(st, hp), state |-> r[1], timers |-> r[2]]

\* A wrong callback: the pending flag is cleared only after a step that ran.
timerCallback_FlagKept(st, hp, pr, viewport, time, seed) ==
    LET r == runTransformFeedback(st, hp, pr, viewport, time, seed)
    IN  IF st.initialized THEN <<[r[1] EXCEPT !.stepRequested = FALSE], r[2]>>
        ELSE r

\* The callback of requestStep's timer: this.step(), then
\* this.state.stepRequested = false
timerCallback(st, hp, pr, viewport, time, seed) ==
    LET r == runTransformFeedback(st, hp, pr, viewport, time, seed)
    IN  <<[r[1] EXCEPT !.stepRequested = FALSE], r[2]>>

\* A wrong update: a zero width is not tested.
updateState_ZeroWidthAllowed(st, hp, pr, oldProps) ==
    IF pr.numParticles = 0 \/ pr.maxAge = 0
    THEN deleteTransformFeedback(st, hp)
    ELSE IF \/ oldProps = Undefined
            \/ pr.image /= oldProps[1].image
            \/ pr.numParticles /= oldProps[1].numParticles
            \/ pr.maxAge /= oldProps[1].maxAge
            \/ pr.width /= oldProps[1].width
            \/ pr.colorRamp.id /= oldProps[1].colorRamp.id
    THEN setupTransformFeedback(st, hp, pr)
    ELSE <<st, hp>>

\* A wrong update: a change of image alone sets nothing up.
updateState_IgnoresImage(st, hp, pr, oldProps) ==
    IF pr.numParticles = 0 \/ pr.maxAge = 0 \/ pr.width = 0
    THEN deleteTransformFeedback(st, hp)
    ELSE IF \/ oldProps = Undefined
            \/ pr.numParticles /= oldProps[1].numParticles
            \/ pr.maxAge /= oldProps[1].maxAge
            \/ pr.width /= oldProps[1].width
            \/ pr.colorRamp.id /= oldProps[1].colorRamp.id
    THEN setupTransformFeedback(st, hp, pr)
    ELSE <<st, hp>>

\* A wrong update: a change of width alone sets nothing up.
updateState_IgnoresWidth(st, hp, pr, oldProps) ==
    IF pr.numParticles = 0 \/ pr.maxAge = 0 \/ pr.width = 0
    THEN deleteTransformFeedback(st, hp)
    ELSE IF \/ oldProps = Undefined
            \/ pr.image /= oldProps[1].image
            \/ pr.numParticles /= oldProps[1].numParticles
            \/ pr.maxAge /= oldProps[1].maxAge
            \/ pr.colorRamp.id /= oldProps[1].colorRamp.id
    THEN setupTransformFeedback(st, hp, pr)
    ELSE <<st, hp>>

\* updateState(): the new state and heap, for the props and the old props
\* (undefined at the update that follows initializeState)
updateState(st, hp, pr, oldProps) ==
    IF pr.numParticles = 0 \/ pr.maxAge = 0 \/ pr.width = 0
    THEN deleteTransformFeedback(st, hp)
    ELSE IF \/ oldProps = Undefined
            \/ pr.image /= oldProps[1].image
            \/ pr.numParticles /= oldProps[1].numParticles
            \/ pr.maxAge /= oldProps[1].maxAge
            \/ pr.width /= oldProps[1].width
            \/ pr.colorRamp.id /= oldProps[1].colorRamp.id
    THEN setupTransformFeedback(st, hp, pr)
    ELSE <<st, hp>>

----------------------------------------------------------------------------
(* Spec: the layer's operations *)

\* A layer is constructed with props and has no state yet.
Init ==
    /\ IdleWrap /\ IdleRamp /\ IdleVertex /\ IdleAux
    /\ phase = "new"
    /\ props \in PropsSet
    /\ state = NoState
    /\ heap = <<>>
    /\ timers = 0
    /\ context = [time |-> 0]
    /\ needsRedraw = FALSE
    /\ rendered = <<>>

pureVars == <<wrapVars, rampVars, vertexVars, auxVars>>

\* initializeState()
InitializeState ==
    /\ phase = "new"
    /\ LET r == setupTransformFeedback(state, heap, props)
       IN  state' = r[1] /\ heap' = r[2]
    /\ phase' = "initialized"
    /\ needsRedraw' = TRUE
    /\ UNCHANGED <<props, timers, context, rendered, pureVars>>

\* updateState(params): the update that follows initializeState (the same
\* props, no old props), and every later update with new props, which are
\* among candidates
UpdateStateAmong(candidates) ==
    /\ phase \in {"initialized", "active"}
    /\ \E newProps \in IF phase = "initialized" THEN {props} ELSE candidates :
          LET oldProps == IF phase = "initialized" THEN Undefined ELSE Some(props)
              r == updateState(state, heap, newProps, oldProps)
          IN  /\ Len(r[2]) <= MaxResources
              /\ props' = newProps
              /\ state' = r[1]
              /\ heap' = r[2]
    /\ phase' = "active"
    /\ needsRedraw' = TRUE
    /\ UNCHANGED <<timers, context, rendered, pureVars>>

\* updateState(params) of Spec
UpdateState == UpdateStateAmong(PropsSet)

\* finalizeState(context)
FinalizeState ==
    /\ phase = "active"
    /\ LET r == deleteTransformFeedback(state, heap)
       IN  state' = r[1] /\ heap' = r[2]
    /\ phase' = "finalized"
    /\ UNCHANGED <<props, timers, context, needsRedraw, rendered, pureVars>>

\* draw({uniforms}), with requestStep() when animate is set
Draw ==
    /\ phase = "active"
    /\ needsRedraw' = FALSE
    /\ LET r == draw(state, heap, props, timers)
       IN  /\ rendered' = r.rendered
           /\ state' = r.state
           /\ timers' = r.timers
    /\ UNCHANGED <<phase, props, heap, context, pureVars>>

\* The callback of requestStep's timer: step(), then the flag is cleared.
\* The timeline's time (which never runs backwards), the viewport that
\* this.context holds at the step and Math.random() are the environment's.
TimerFires ==
    /\ timers > 0
    /\ \E time \in context.time..MaxTime, viewport \in Viewports, seed \in 0..MaxSeed :
          LET r == timerCallback(state, heap, props, viewport, time, seed)
          IN  /\ context' = [time |-> time]
              /\ state' = r[1]
              /\ heap' = r[2]
    /\ timers' = timers - 1
    /\ needsRedraw' = TRUE
    /\ UNCHANGED <<phase, props, rendered, pureVars>>

\* clear()
Clear ==
    /\ phase \in {"active", "finalized"}
    /\ heap' = resetTransformFeedback(state, heap)
    /\ needsRedraw' = TRUE
    /\ UNCHANGED <<phase, props, state, timers, context, rendered, pureVars>>

Next ==
    \/ InitializeState
    \/ UpdateState
    \/ FinalizeState
    \/ Draw
    \/ TimerFires
    \/ Clear

Spec == Init /\ [][Next]_vars

----------------------------------------------------------------------------
(* Claims about one run of main() *)

\* The vertex has run and its source position was not the sentinel.
RanOnParticle == vsOut /= <<>> /\ XY(vsIn.source) /= DROP_POSITION

\* The vertex has run and its source position was the sentinel.
RanOnSentinel == vsOut /= <<>> /\ XY(vsIn.source) = DROP_POSITION

OutsideField == ~isPositionInBounds(XY(vsIn.source), vsIn.wind.bounds)

\* C2 as stated: a particle that is not the sentinel and lies outside the
\* field's bounds keeps its position over the tick, for every time, lane
\* index and zoom change factor.
C2_FreezeForEveryTimeAndFactor ==
    (RanOnParticle /\ OutsideField) => XY(vsOut.target) = XY(vsIn.source)

\* C2 amended: a particle that is not the sentinel, lies outside the
\* field's bounds and is dropped neither by the zoom-culling rule nor by the
\* age-cycling rule of the tick keeps its position over the tick; one that
\* either of the two rules drops is written the sentinel.
C2_FreezeUnlessCulled ==
    (RanOnParticle /\ OutsideField) =>
        LET index == particleIndex(vsIn.id, vsIn.wind)
            culled == isZoomDropped(index, vsIn.wind) \/ isAgeDropped(index, vsIn.wind)
        IN  /\ ~culled => XY(vsOut.target) = XY(vsIn.source)
            /\ culled => XY(vsOut.target) = DROP_POSITION

\* A particle outside the field's bounds and outside the viewport window
\* that has been frozen.
C2_Witness ==
    /\ RanOnParticle /\ OutsideField
    /\ ~isPositionInViewport(XY(vsIn.source), vsIn.wind)
    /\ vsOut.rule = "freeze"
    /\ vsOut.target = vsIn.source

\* C4 as stated: a sentinel lane is written a position with
\* minLng <= lng <= maxLng and minLat <= lat <= maxLat of the tick's
\* viewport window, and the field is not sampled.
C4_ReseedInsideWindow ==
    RanOnSentinel =>
        LET w == vsIn.wind.viewportBounds IN
        /\ w[1] <= vsOut.target[1] /\ vsOut.target[1] <= w[3]
        /\ w[2] <= vsOut.target[2] /\ vsOut.target[2] <= w[4]
        /\ ~vsOut.sampled

\* C4 amended: a sentinel lane is written a position with
\* minLat <= lat <= maxLat whose longitude, wrapped relative to minLng as
\* isPositionInBounds wraps it, satisfies minLng <= lng <= maxLng; the
\* stored longitude itself satisfies it when maxLng < 180; the field is not
\* sampled.
C4_ReseedInsideWrappedWindow ==
    RanOnSentinel =>
        LET w == vsIn.wind.viewportBounds
            lng == glslWrapLongitudeMin(vsOut.target[1], w[1])
        IN  /\ w[1] <= lng /\ lng <= w[3]
            /\ w[3] < 180 => (w[1] <= vsOut.target[1] /\ vsOut.target[1] <= w[3])
            /\ w[2] <= vsOut.target[2] /\ vsOut.target[2] <= w[4]
            /\ isPositionInViewport(XY(vsOut.target), vsIn.wind)
            /\ ~vsOut.sampled

\* A reseed in a window across the antimeridian, east of 180: the stored
\* longitude is below minLng.
C4_Witness ==
    /\ RanOnSentinel
    /\ vsIn.wind.viewportBounds[3] > 180
    /\ vsOut.target[1] < vsIn.wind.viewportBounds[1]
    /\ vsOut.target[2] > vsIn.wind.viewportBounds[2]

\* C5: with the zoom change factor 4, among the lanes that are not the
\* sentinel exactly those with index mod 4 = 0 are not dropped by the
\* zoom-culling rule, and every other one is written the sentinel.
C5_ZoomCullingFactor4 ==
    (RanOnParticle /\ vsIn.wind.viewportZoomChangeFactor = <<4, 1>>) =>
        LET index == particleIndex(vsIn.id, vsIn.wind) IN
        /\ index % 4 /= 0 =>
               (vsOut.rule = "zoomDrop" /\ XY(vsOut.target) = DROP_POSITION)
        /\ index % 4 = 0 => vsOut.rule /= "zoomDrop"

\* Lane 4 has survived a tick of factor 4 and has been advected.
C5_Witness ==
    /\ RanOnParticle /\ vsIn.wind.viewportZoomChangeFactor = <<4, 1>>
    /\ vsIn.id = 4
    /\ vsOut.rule = "advect"
    /\ XY(vsOut.target) /= DROP_POSITION

----------------------------------------------------------------------------
(* Claims about the layer's operations *)

\* A position buffer whose every slot is the sentinel (0, 0, 0).
AllSentinel(buffer) == \A i \in DOMAIN buffer : buffer[i] = <<0, 0, 0>>

\* The slot of generation g (from 0) and lane p (from 1) in a buffer of
\* numParticles lanes.
Slot(buffer, g, p, numParticles) == buffer[g * numParticles + p]

\* A step of the timer's callback that gets past both early returns of
\* _runTransformFeedback().
EffectiveTick ==
    /\ timers' = timers - 1
    /\ stepIsEffective(state, context'.time)

\* C1: after an effective tick, slot (g, p) of the new source buffer is
\* slot (g - 1, p) of the source buffer before the tick, for every
\* generation g in 1 .. maxAge - 1 and every lane p, and generation 0 of the
\* new source buffer is what main() wrote for the old generation 0 under
\* the uniforms of the tick; the buffers have exchanged their roles.
C1_GenerationShift ==
    [][ EffectiveTick =>
          LET old == heap[state.sourcePositions].data
              new == heap'[state'.sourcePositions].data
              n == props.numParticles
          IN  /\ state'.sourcePositions = state.targetPositions
              /\ state'.targetPositions = state.sourcePositions
              /\ Len(new) = n * props.maxAge
              /\ \A g \in 1..(props.maxAge - 1), p \in 1..n :
                    Slot(new, g, p, n) = Slot(old, g - 1, p, n)
              /\ \E viewport \in Viewports, seed \in 0..MaxSeed :
                    \A p \in 1..n :
                        Slot(new, 0, p, n) =
                            main(p - 1, Slot(old, 0, p, n),
                                 moduleUniforms(state, props, viewport,
                                                context'.time, seed))
      ]_vars

\* Three generations of a lane hold particles after ticks: the oldest
\* generation holds what the middle one held, and the youngest has moved.
C1_Witness ==
    /\ state.initialized
    /\ props.maxAge = 3
    /\ LET source == heap[state.sourcePositions].data
           target == heap[state.targetPositions].data
           n == props.numParticles
       IN  \E p \in 1..n :
              /\ XY(Slot(source, 2, p, n)) /= DROP_POSITION
              /\ Slot(source, 2, p, n) = Slot(target, 1, p, n)
              /\ XY(Slot(source, 0, p, n)) /= DROP_POSITION
              /\ Slot(source, 0, p, n) /= Slot(source, 1, p, n)

\* C3: a segment handed to the draw call is discarded if and only if the
\* xy of its source endpoint or of its target endpoint is exactly (0, 0);
\* a segment with two other endpoints is drawn.
C3_SentinelDiscard ==
    \A i \in DOMAIN rendered :
        rendered[i].discarded <=>
            \/ (rendered[i].source[1] = 0 /\ rendered[i].source[2] = 0)
            \/ (rendered[i].target[1] = 0 /\ rendered[i].target[2] = 0)

\* A frame with a drawn segment, and a discarded one of which only the
\* target endpoint is the sentinel.
C3_Witness ==
    /\ \E i \in DOMAIN rendered :
          /\ ~rendered[i].discarded
          /\ XY(rendered[i].source) /= DROP_POSITION
          /\ XY(rendered[i].target) /= DROP_POSITION
    /\ \E j \in DOMAIN rendered :
          /\ rendered[j].discarded
          /\ XY(rendered[j].source) /= DROP_POSITION
          /\ XY(rendered[j].target) = DROP_POSITION

\* A call of _setupTransformFeedback() that gets past the test of the
\* image: resources are created.
SetupSucceeds ==
    /\ Len(heap') > Len(heap)
    /\ InitializeState \/ UpdateState

\* C8: after a set-up with a loaded image the state is initialized, the two
\* position buffers are distinct live buffers of numParticles * maxAge
\* slots, each slot (0, 0, 0), numInstances is numParticles * maxAge,
\* numAgedInstances is numParticles * (maxAge - 1), and previousTime and
\* previousViewportZoom are 0.
C8_SetupPostState ==
    [][ SetupSucceeds =>
          LET n == props'.numParticles * props'.maxAge
              source == heap'[state'.sourcePositions]
              target == heap'[state'.targetPositions]
          IN  /\ ~isNotLoaded(props'.image)
              /\ state'.initialized
              /\ state'.sourcePositions /= state'.targetPositions
              /\ source.kind = "buffer" /\ source.destroyed = 0
              /\ target.kind = "buffer" /\ target.destroyed = 0
              /\ Len(source.data) = n /\ AllSentinel(source.data)
              /\ Len(target.data) = n /\ AllSentinel(target.data)
              /\ state'.numInstances = n
              /\ state'.numAgedInstances =
                    props'.numParticles * (props'.maxAge - 1)
              /\ state'.previousTime = 0
              /\ state'.previousViewportZoom = 0
      ]_vars

\* A third set-up, made after the timeline has advanced, of a layer with
\* particles.
C8_Witness ==
    /\ state.initialized
    /\ Len(heap) = 15
    /\ state.sourcePositions = 11
    /\ context.time > 0
    /\ state.previousTime = 0
    /\ state.numInstances > 0
    /\ AllSentinel(heap[state.sourcePositions].data)
    /\ AllSentinel(heap[state.targetPositions].data)

\* A call of _deleteTransformFeedback() that is not followed by a set-up:
\* finalizeState(), or updateState() with a zero count.
TeardownCalled ==
    \/ phase' = "finalized" /\ FinalizeState
    \/ /\ props'.numParticles = 0 \/ props'.maxAge = 0 \/ props'.width = 0
       /\ UpdateState

\* The handles of the resources that the state holds.
StateResources(st) ==
    { st.sourcePositions, st.targetPositions, st.colors, st.transform,
      st.colorRampTexture }

\* Every resource ever created is either held by an initialized state and
\* not destroyed, or destroyed once.
ResourcesAccounted(st, hp) ==
    /\ \A h \in DOMAIN hp :
          IF st.initialized /\ h \in StateResources(st)
          THEN hp[h].destroyed = 0
          ELSE hp[h].destroyed = 1
    /\ st.initialized =>
          /\ StateResources(st) \subseteq DOMAIN hp
          /\ Cardinality(StateResources(st)) = 5

\* C9: a teardown of an uninitialized pipeline (never set up, or torn down
\* already) changes nothing; after a teardown the pipeline is
\* uninitialized; and after every step each position buffer, colour buffer,
\* transform and ramp texture of a past set-up has been destroyed once, and
\* those of the current set-up not at all.
C9_TeardownIdempotent ==
    [][ /\ (TeardownCalled /\ ~state.initialized) =>
              (state' = state /\ heap' = heap)
        /\ TeardownCalled => ~state'.initialized
        /\ ResourcesAccounted(state', heap')
      ]_vars

\* A layer that was set up, torn down by an update with no particles, and
\* torn down again by finalizeState().
C9_Witness ==
    /\ phase = "finalized"
    /\ props.numParticles = 0
    /\ Len(heap) >= 10
    /\ ~state.initialized
    /\ \A h \in DOMAIN heap : heap[h].destroyed = 1

\* C10: clear() on an initialized pipeline leaves every slot of both
\* position buffers (0, 0, 0) and changes nothing else of the state or of
\* the resources: the handles and their roles, numInstances, the colour
\* buffer, the transform and its bindings, the ramp texture and the
\* initialized flag; on an uninitialized pipeline it changes neither the
\* state nor the resources.
C10_Reset ==
    [][ (timers' = timers /\ phase' = phase /\ Clear) =>
          /\ state' = state
          /\ Len(heap') = Len(heap)
          /\ IF state.initialized
             THEN /\ \A h \in DOMAIN heap :
                        IF h \in {state.sourcePositions, state.targetPositions}
                        THEN /\ heap'[h].kind = heap[h].kind
                             /\ heap'[h].destroyed = heap[h].destroyed
                             /\ Len(heap'[h].data) = Len(heap[h].data)
                             /\ Len(heap'[h].data) = state.numInstances
                             /\ AllSentinel(heap'[h].data)
                        ELSE heap'[h] = heap[h]
             ELSE heap' = heap
      ]_vars

\* Both buffers of a layer that has stepped hold only sentinels while the
\* last frame shows a particle: the layer was cleared after the draw.
C10_Witness ==
    /\ state.initialized
    /\ state.previousTime > 0
    /\ state.numInstances > 0
    /\ AllSentinel(heap[state.sourcePositions].data)
    /\ AllSentinel(heap[state.targetPositions].data)
    /\ \E i \in DOMAIN rendered : ~rendered[i].discarded

----------------------------------------------------------------------------
(* Claims about updates of the props *)

\* An update with new props (only updateState changes the props).
PropsUpdated == phase = "active" /\ phase' = "active" /\ props' /= props

\* !numParticles || !maxAge || !width
ZeroConfiguration(pr) == pr.numParticles = 0 \/ pr.maxAge = 0 \/ pr.width = 0

\* One of the image, numParticles, maxAge, width and colour ramp differs.
StructuralChange(old, new) ==
    \/ new.image /= old.image
    \/ new.numParticles /= old.numParticles
    \/ new.maxAge /= old.maxAge
    \/ new.width /= old.width
    \/ new.colorRamp /= old.colorRamp

\* C11: an update with non-zero numParticles, maxAge and width in which the
\* image, numParticles, maxAge, width or colour ramp differs from the
\* previous props destroys every resource the state held and, when the
\* image is a loaded texture, leaves an initialized state with new buffers
\* of numParticles * maxAge slots, each the sentinel; with an image that is
\* not loaded it leaves the state uninitialized.
C11_ResetupOnStructuralChange ==
    [][ (/\ PropsUpdated
         /\ ~ZeroConfiguration(props')
         /\ StructuralChange(props, props')) =>
          /\ state.initialized =>
                \A h \in StateResources(state) : heap'[h].destroyed = 1
          /\ IF isNotLoaded(props'.image)
             THEN ~state'.initialized /\ Len(heap') = Len(heap)
             ELSE LET n == props'.numParticles * props'.maxAge
                      source == heap'[state'.sourcePositions]
                      target == heap'[state'.targetPositions]
                  IN  /\ state'.initialized
                      /\ Len(heap') = Len(heap) + 5
                      /\ StateResources(state') = (Len(heap) + 1)..(Len(heap) + 5)
                      /\ Len(source.data) = n /\ AllSentinel(source.data)
                      /\ Len(target.data) = n /\ AllSentinel(target.data)
                      /\ state'.numInstances = n
                      /\ state'.widths = props'.width
                      /\ heap'[state'.colorRampTexture].data = props'.colorRamp.stops
      ]_vars

\* A layer rebuilt, after the timeline advanced, by the update that brought
\* the width 2: its third set-up.
C11_Witness ==
    /\ phase = "active"
    /\ state.initialized
    /\ props.width = 2 /\ state.widths = 2
    /\ Len(heap) = 15
    /\ StateResources(state) = 11..15
    /\ context.time > 0
    /\ \A h \in 1..10 : heap[h].destroyed = 1

\* C12: an update in which the image, numParticles, maxAge and width are
\* unchanged and the colour ramp has the same stops (in the same or in
\* another array) leaves the position buffers and their contents, the ramp
\* texture and the initialized flag unchanged.
C12_NoRebuildWithoutStructuralChange ==
    [][ (/\ PropsUpdated
         /\ props'.image = props.image
         /\ props'.numParticles = props.numParticles
         /\ props'.maxAge = props.maxAge
         /\ props'.width = props.width
         /\ props'.colorRamp.stops = props.colorRamp.stops) =>
          /\ state'.initialized = state.initialized
          /\ state'.sourcePositions = state.sourcePositions
          /\ state'.targetPositions = state.targetPositions
          /\ state'.colorRampTexture = state.colorRampTexture
          /\ Len(heap') = Len(heap)
          /\ state.initialized =>
                \A h \in { state.sourcePositions, state.targetPositions,
                           state.colorRampTexture } : heap'[h] = heap[h]
      ]_vars

\* Every resource ever created has been destroyed.
AllReleased(hp) == \A h \in DOMAIN hp : hp[h].destroyed = 1

\* A step of an updated layer that keeps its phase: an update, a draw, a
\* timer's callback or clear().
ActiveStep == phase = "active" /\ phase' = "active"

\* C13: after every update with a zero numParticles, maxAge or width the
\* state is uninitialized and every resource released; and while the props
\* stay so, a draw renders nothing, and no draw, timer callback or later
\* update changes a resource, starts a timer or raises the pending flag.
C13_ZeroConfigurationDisables ==
    [][ (phase' = "active" /\ ZeroConfiguration(props')) =>
          /\ ~state'.initialized
          /\ AllReleased(heap')
          /\ (ActiveStep /\ ZeroConfiguration(props)) =>
                /\ heap' = heap
                /\ timers' <= timers
                /\ state'.stepRequested => state.stepRequested
                /\ (needsRedraw /\ ~needsRedraw' /\ Draw) => rendered' = <<>>
      ]_vars

\* A layer that was set up and has a zero width since an update, after a
\* draw in that configuration.
C13_Witness ==
    /\ phase = "active"
    /\ props.width = 0
    /\ ~state.initialized
    /\ Len(heap) = 10
    /\ AllReleased(heap)
    /\ ~needsRedraw
    /\ rendered = <<>>
    /\ timers = 0
    /\ context.time > 0

\* C14: while the image prop is null or a string the state of an
\* initialized or updated layer is uninitialized and holds no resource (so
\* also after the update that replaced a loaded texture); a draw renders
\* nothing, and no draw, timer callback or update in between changes a
\* resource, starts a timer or raises the pending flag.
C14_MissingField ==
    [][ (phase' \in {"initialized", "active"} /\ isNotLoaded(props'.image)) =>
          /\ ~state'.initialized
          /\ AllReleased(heap')
          /\ (ActiveStep /\ isNotLoaded(props.image)) =>
                /\ heap' = heap
                /\ timers' <= timers
                /\ state'.stepRequested => state.stepRequested
                /\ (needsRedraw /\ ~needsRedraw' /\ Draw) => rendered' = <<>>
      ]_vars

\* A layer whose loaded texture was replaced by an image still loading,
\* after a draw in that configuration.
C14_Witness ==
    /\ phase = "active"
    /\ props.image = "url"
    /\ ~state.initialized
    /\ Len(heap) = 10
    /\ AllReleased(heap)
    /\ ~needsRedraw
    /\ rendered = <<>>
    /\ timers = 0
    /\ context.time > 0

----------------------------------------------------------------------------
(* Claims about the step timer *)

\* The callback of a step timer runs.
TimerFired == timers' = timers - 1

\* A draw of a layer that needed one.
Redrawn == needsRedraw /\ ~needsRedraw' /\ Draw

\* C15: when the timer of a requested step fires on a pipeline that was
\* torn down in between, no resource is read or written (no advection, no
\* copy, no exchange of the handles) and only the pending flag of the state
\* changes: it is cleared, and a later draw of an initialized, animated
\* layer starts a timer again.
C15_Cancellation ==
    [][ /\ (TimerFired /\ ~state.initialized) =>
              /\ heap' = heap
              /\ state' = [state EXCEPT !.stepRequested = FALSE]
              /\ ~state'.stepRequested
        /\ (state.initialized /\ props.animate /\ ~state.stepRequested /\ Redrawn) =>
              /\ timers' = timers + 1
              /\ state'.stepRequested
      ]_vars

\* A torn-down pipeline on which a timer has fired: the timeline's time at
\* the last callback is later than that of the last step that ran, and no
\* step is pending.
C15_Witness ==
    /\ ~state.initialized
    /\ state.previousTime > 0
    /\ context.time > state.previousTime
    /\ timers = 0
    /\ ~state.stepRequested
    /\ AllReleased(heap)

\* C16: at most one step timer is pending, and the stepRequested flag is
\* set exactly while one is.
C16_Debounce ==
    /\ timers <= 1
    /\ phase /= "none" => (state.stepRequested <=> timers = 1)

\* A timer started before the third set-up is still pending after it: the
\* buffers are new and untouched, the last frame shows particles of the
\* buffers before.
C16_Witness ==
    /\ timers = 1
    /\ state.initialized
    /\ state.stepRequested
    /\ StateResources(state) = 11..15
    /\ state.previousTime = 0
    /\ AllSentinel(heap[state.sourcePositions].data)
    /\ AllSentinel(heap[state.targetPositions].data)
    /\ \E i \in DOMAIN rendered : ~rendered[i].discarded

\* C17: while animate is false no draw starts a timer or raises the pending
\* flag, so at most the step already pending runs; once none is pending,
\* draws and timers change neither the resources nor the state, and a draw
\* renders the segments of the unchanged buffers.
C17_AnimateOff ==
    [][ (/\ ~props.animate /\ ~props'.animate
         /\ ActiveStep
         /\ Redrawn \/ TimerFired) =>
          /\ timers' <= timers
          /\ state'.stepRequested => state.stepRequested
          /\ timers = 0 =>
                /\ heap' = heap
                /\ state' = state
                /\ rendered' = drawSegments(state, heap)
      ]_vars

\* A layer that has stepped, with animate off and no step pending, just
\* drawn: the frame shows a particle of the buffers as they are.
C17_Witness ==
    /\ phase = "active"
    /\ ~props.animate
    /\ state.initialized
    /\ state.previousTime > 0
    /\ timers = 0
    /\ ~needsRedraw
    /\ rendered = drawSegments(state, heap)
    /\ \E i \in DOMAIN rendered : ~rendered[i].discarded

----------------------------------------------------------------------------
(* Claims about the resources of the pipeline *)

\* The resource of a handle exists and is not destroyed.
Live(hp, h) == h \in DOMAIN hp /\ hp[h].destroyed = 0

\* The resources that draw() hands to the model: none when the state is not
\* initialized.
drawReads(st) ==
    IF st.initialized
    THEN {st.sourcePositions, st.targetPositions, st.colors, st.colorRampTexture}
    ELSE {}

\* The resources that _runTransformFeedback() uses at a new time: the
\* transform, the buffers bound to it and the buffers of the copy.
stepUses(st, hp) ==
    IF st.initialized
    THEN {st.transform, st.sourcePositions, st.targetPositions}
         \cup (IF Live(hp, st.transform) /\ hp[st.transform].kind = "transform"
               THEN { hp[st.transform].data.sourcePosition,
                      hp[st.transform].data.targetPosition }
               ELSE {})
    ELSE {}

\* The buffers that _resetTransformFeedback() writes.
resetWrites(st) ==
    IF st.initialized THEN {st.sourcePositions, st.targetPositions} ELSE {}

\* C18: in every state, whatever comes next, a draw, a step or a reset
\* reads and writes only resources that exist and are not destroyed.
C18_NoUseAfterDestroy ==
    phase \in {"initialized", "active", "finalized"} =>
        \A h \in drawReads(state) \cup stepUses(state, heap) \cup resetWrites(state) :
            Live(heap, h)

\* A re-set-up with a timer pending: the ten resources of the set-ups
\* before are destroyed, the state holds five live ones.
C18_Witness ==
    /\ state.initialized
    /\ timers = 1
    /\ Len(heap) = 15
    /\ \A h \in 1..10 : heap[h].destroyed = 1
    /\ stepUses(state, heap) = {11, 12, 15}
    /\ drawReads(state) = {11, 12, 13, 14}

\* The buffers bound to the transform are the source and the target of the
\* state.
BindingsFollowState(st, hp) ==
    /\ hp[st.transform].data.sourcePosition = st.sourcePositions
    /\ hp[st.transform].data.targetPosition = st.targetPositions

\* C19: after every step, an initialized state names two distinct live
\* buffers, the transform reads the one named source and writes the one
\* named target; an effective step exchanges the two handles, creates no
\* resource and copies less than a whole buffer; and between set-up and
\* teardown the two buffers stay the same pair.
C19_DoubleBufferSwap ==
    [][ /\ state'.initialized =>
              /\ state'.sourcePositions /= state'.targetPositions
              /\ Live(heap', state'.sourcePositions)
              /\ Live(heap', state'.targetPositions)
              /\ BindingsFollowState(state', heap')
        /\ EffectiveTick =>
              /\ state'.sourcePositions = state.targetPositions
              /\ state'.targetPositions = state.sourcePositions
              /\ Len(heap') = Len(heap)
              /\ state.numAgedInstances < state.numInstances
              /\ state'.numInstances = state.numInstances
        /\ (state.initialized /\ state'.initialized /\ Len(heap') = Len(heap)) =>
              {state'.sourcePositions, state'.targetPositions} =
                  {state.sourcePositions, state.targetPositions}
      ]_vars

\* After an odd number of effective steps: the buffer created second is the
\* source, the one created first the target, and the transform is bound so.
C19_Witness ==
    /\ state.initialized
    /\ state.previousTime > 0
    /\ state.sourcePositions = state.targetPositions + 1
    /\ BindingsFollowState(state, heap)
    /\ XY(heap[state.sourcePositions].data[1]) /= DROP_POSITION

----------------------------------------------------------------------------
(* SpecNoData: a layer whose field holds no data *)

\* Props with a loaded image of which every sample is no-data (alpha 0, a
\* NaN value), on the whole globe: one lane and three generations, two
\* lanes and two generations, and the same without an unscale range.
NoDataProps ==
    { [BaseProps EXCEPT !.image = "texNone"],
      [BaseProps EXCEPT !.image = "texNone", !.numParticles = 2, !.maxAge = 2],
      [BaseProps EXCEPT !.image = "texNone", !.imageUnscale = <<0, 0>>] }

InitNoData ==
    /\ IdleWrap /\ IdleRamp /\ IdleVertex /\ IdleAux
    /\ phase = "new"
    /\ props \in NoDataProps
    /\ state = NoState
    /\ heap = <<>>
    /\ timers = 0
    /\ context = [time |-> 0]
    /\ needsRedraw = FALSE
    /\ rendered = <<>>

\* updateState(params) with props of NoDataProps
UpdateNoData == UpdateStateAmong(NoDataProps)

NextNoData ==
    \/ InitializeState
    \/ UpdateNoData
    \/ Draw
    \/ TimerFires
    \/ Clear

SpecNoData == InitNoData /\ [][NextNoData]_vars

\* C21: with a field of which every sample is no-data, on the bounds of
\* the whole globe, every segment of every frame has an endpoint whose xy
\* is the sentinel, so every segment is discarded.
C21_NoDataShowsNothing ==
    \A i \in DOMAIN rendered :
        /\ XY(rendered[i].source) = DROP_POSITION
              \/ XY(rendered[i].target) = DROP_POSITION
        /\ rendered[i].discarded

\* A frame after two steps: a particle was reseeded and has aged one
\* generation, and its segment ends in the sentinel.
C21_Witness ==
    /\ state.initialized
    /\ state.previousTime > 0
    /\ \E i \in DOMAIN rendered :
          /\ i > props.numParticles
          /\ XY(rendered[i].source) /= DROP_POSITION
          /\ XY(rendered[i].target) = DROP_POSITION

----------------------------------------------------------------------------
(* SpecSimple: the SimpleWindLayer of simple-wind.ts *)

\* The GL objects that one SimpleWindLayer may create.
MaxObjects == 16

\* options.numParticles
SimpleNumParticles == {1, 2, 4}

\* What the GL context does with the sources of one program.
ProgramOutcomes == {"ok", "vertexCompileError", "fragmentCompileError", "linkError"}

\* Math.ceil(Math.sqrt(n))
CeilSqrt(n) == CHOOSE r \in 0..n : r * r >= n /\ (r = 0 \/ (r - 1) * (r - 1) < n)

\* The record of a call: what it was, how it ended, the passes it entered
\* and whether each reached its drawArrays, and the console.error messages.
Call(op, outcome, passes, console) ==
    [op |-> op, outcome |-> outcome, passes |-> passes, console |-> console]

\* new SimpleWindLayer(id, options)
newSimpleWindLayer(numParticles) ==
    [ gl |-> FALSE, map |-> FALSE, windData |-> "null",
      numParticlesOption |-> numParticles,
      drawProgram |-> "null", updateProgram |-> "null",
      quadBuffer |-> 0, particleIndexBuffer |-> 0, framebuffer |-> 0,
      windTexture |-> 0, particleStateTexture0 |-> 0,
      particleStateTexture1 |-> 0, colorRampTexture |-> 0,
      particleStateResolution |-> 0, numParticles |-> 0,
      objects |-> 0, viewport |-> "map", framebufferBinding |-> 0,
      last |-> Call("new", "returned", <<>>, {}) ]

\* createShader and createProgram: the wrapper or null, and the messages
\* written to console.error
createProgram(outcome) ==
    CASE outcome = "ok" -> [program |-> "program", console |-> {}]
      [] outcome = "linkError" ->
            [program |-> "null", console |-> {"Program link error:"}]
      [] OTHER ->
            [program |-> "null", console |-> {"Shader compile error:"}]

\* setWindData(data)
setWindData(l) ==
    LET l1 == [l EXCEPT !.windData = "data"]
    IN  [(IF l.gl
          THEN [l1 EXCEPT !.objects = @ + 1, !.windTexture = l.objects + 1]
          ELSE l1)
         EXCEPT !.last = Call("setWindData", "returned", <<>>, {})]

\* setNumParticles(numParticles)
setNumParticles(l, numParticles) ==
    IF ~l.gl THEN l
    ELSE LET particleRes == CeilSqrt(numParticles)
         IN  [l EXCEPT !.particleStateResolution = particleRes,
                       !.numParticles = particleRes * particleRes,
                       !.particleStateTexture0 = l.objects + 1,
                       !.particleStateTexture1 = l.objects + 2,
                       !.particleIndexBuffer = l.objects + 3,
                       !.objects = @ + 3]

\* onAdd(map, gl)
onAdd(l, drawOutcome, updateOutcome) ==
    LET drawWrapper == createProgram(drawOutcome)
        updateWrapper == createProgram(updateOutcome)
        l1 == [l EXCEPT !.map = TRUE, !.gl = TRUE,
                        !.drawProgram = drawWrapper.program,
                        !.updateProgram = updateWrapper.program]
        console == drawWrapper.console \cup updateWrapper.console
    IN  IF l1.drawProgram = "null" \/ l1.updateProgram = "null"
        THEN [l1 EXCEPT !.last =
                 Call("onAdd", "returned", <<>>,
                      console \cup {"[SimpleWindLayer] Failed to create shaders"})]
        ELSE
            LET l2 == [l1 EXCEPT !.quadBuffer = l1.objects + 1,
                                 !.framebuffer = l1.objects + 2,
                                 !.colorRampTexture = l1.objects + 3,
                                 !.objects = @ + 3]
                l3 == setNumParticles(l2, l2.numParticlesOption)
                l4 == IF l3.windData = "data"
                      THEN [l3 EXCEPT !.windTexture = l3.objects + 1,
                                      !.objects = @ + 1]
                      ELSE l3
            IN  [l4 EXCEPT !.last = Call("onAdd", "returned", <<>>, console)]

\* onRemove()
onRemove(l) ==
    [l EXCEPT !.map = FALSE, !.gl = FALSE,
              !.last = Call("onRemove", "returned", <<>>, {})]

\* drawParticles(matrix): the pass, the state texture that render() has
\* bound to unit 1 (u_particles), and whether the pass reached drawArrays; a
\* null program makes program.program throw a TypeError
drawParticles(l) ==
    [pass |-> "draw", program |-> l.drawProgram, drawn |-> l.drawProgram /= "null",
     particles |-> l.particleStateTexture0, target |-> 0]

\* updateParticles(): the layer after the pass, and the pass.  The
\* framebuffer and the viewport are set before the program is used, and
\* restored after drawArrays.
updateParticles(l) ==
    LET bound == [l EXCEPT !.framebufferBinding = l.framebuffer,
                           !.viewport = "particles"]
    IN  IF l.updateProgram = "null"
        THEN [layer |-> bound,
              pass |-> [pass |-> "update", program |-> "null", drawn |-> FALSE,
                        particles |-> l.particleStateTexture0,
                        target |-> l.particleStateTexture1]]
        ELSE [layer |-> [l EXCEPT
                            !.particleStateTexture0 = l.particleStateTexture1,
                            !.particleStateTexture1 = l.particleStateTexture0],
              pass |-> [pass |-> "update", program |-> l.updateProgram,
                        drawn |-> TRUE,
                        particles |-> l.particleStateTexture0,
                        target |-> l.particleStateTexture1]]

\* render(gl, options)
render(l) ==
    IF ~l.gl \/ l.windData = "null" \/ l.windTexture = 0 \/ ~l.map
    THEN [l EXCEPT !.last = Call("render", "returned", <<>>, {})]
    ELSE
        LET drawPass == drawParticles(l)
        IN  IF ~drawPass.drawn
            THEN [l EXCEPT !.last = Call("render", "threw", <<drawPass>>, {})]
            ELSE
                LET updated == updateParticles(l)
                IN  [updated.layer EXCEPT !.last =
                        Call("render",
                             IF updated.pass.drawn THEN "returned" ELSE "threw",
                             <<drawPass, updated.pass>>, {})]

InitSimple ==
    /\ IdleWrap /\ IdleRamp /\ IdleVertex /\ IdleBounds /\ IdleTexture /\ IdleTicks
    /\ phase = "none" /\ props = <<>> /\ state = <<>> /\ heap = <<>>
    /\ timers = 0 /\ context = <<>> /\ needsRedraw = FALSE /\ rendered = <<>>
    /\ \E numParticles \in SimpleNumParticles :
          simple = newSimpleWindLayer(numParticles)

\* map.addLayer(layer): the layer is not on a map
OnAdd ==
    /\ ~simple.gl
    /\ simple.objects + 7 <= MaxObjects
    /\ \E drawOutcome \in ProgramOutcomes, updateOutcome \in ProgramOutcomes :
          simple' = onAdd(simple, drawOutcome, updateOutcome)
    /\ UNCHANGED <<wrapVars, rampVars, vertexVars, layerVars, boundsVars, textureVars, tickLog>>

\* map.removeLayer(id)
OnRemove ==
    /\ simple.gl
    /\ simple' = onRemove(simple)
    /\ UNCHANGED <<wrapVars, rampVars, vertexVars, layerVars, boundsVars, textureVars, tickLog>>

SetWindData ==
    /\ simple.objects + 1 <= MaxObjects
    /\ simple' = setWindData(simple)
    /\ UNCHANGED <<wrapVars, rampVars, vertexVars, layerVars, boundsVars, textureVars, tickLog>>

\* A frame of the map the layer is on
Render ==
    /\ simple.gl
    /\ simple' = render(simple)
    /\ UNCHANGED <<wrapVars, rampVars, vertexVars, layerVars, boundsVars, textureVars, tickLog>>

\* A call of render() on a layer that is not on a map
RenderOffMap ==
    /\ ~simple.gl
    /\ simple' = render(simple)
    /\ UNCHANGED <<wrapVars, rampVars, vertexVars, layerVars, boundsVars, textureVars, tickLog>>

NextSimple ==
    \/ OnAdd
    \/ OnRemove
    \/ SetWindData
    \/ Render
    \/ RenderOffMap

SpecSimple == InitSimple /\ [][NextSimple]_vars

\* A program of the layer is missing.
ProgramMissing(l) == l.drawProgram = "null" \/ l.updateProgram = "null"

\* C22: an onAdd in which a program fails to compile or link does not
\* return normally, and a render of a layer with a missing program enters
\* neither the draw pass nor the update pass.
C22_ShaderFailureReported ==
    /\ (simple.last.op = "onAdd" /\ ProgramMissing(simple)) =>
          simple.last.outcome = "threw"
    /\ (simple.last.op = "render" /\ ProgramMissing(simple)) =>
          simple.last.passes = <<>>

\* What the code does in place of C22: the failed onAdd returns with a
\* message on the console and without the buffers, and a render of that
\* layer either returns at once, for want of wind data, or throws from the
\* first pass whose program is missing.
C22_FailureLoggedRenderThrows ==
    /\ (simple.last.op = "onAdd" /\ ProgramMissing(simple)) =>
          /\ simple.last.outcome = "returned"
          /\ "[SimpleWindLayer] Failed to create shaders" \in simple.last.console
    /\ (simple.last.op = "render" /\ ProgramMissing(simple)) =>
          \/ simple.last.passes = <<>> /\ simple.last.outcome = "returned"
          \/ /\ simple.last.outcome = "threw"
             /\ ~simple.last.passes[Len(simple.last.passes)].drawn
             /\ simple.last.passes[Len(simple.last.passes)].program = "null"

\* A render after a failed onAdd and a setWindData: the draw pass ran with
\* its program, the update pass threw for want of its own and left the
\* viewport of the particle texture set.
C22_Witness ==
    /\ simple.last.op = "render"
    /\ simple.updateProgram = "null"
    /\ simple.last.outcome = "threw"
    /\ Len(simple.last.passes) = 2
    /\ simple.viewport = "particles"

----------------------------------------------------------------------------
(* SpecBounds: wrapBounds applied to every bounds of a bounded set *)

\* The west edges are the longitudes of -MaxBoundsLng .. MaxBoundsLng.
MaxBoundsLng == 400

\* east - west: crossed, empty, narrow, and around one and two turns
BoundsWidths == {-361, -360, -359, -1, 0, 1, 180, 359, 360, 361, 720}

\* <<south, north>>: inside, on and beyond the poles
BoundsLats == { <<-45, 45>>, <<-90, 90>>, <<-91, 91>>, <<-120, 30>>, <<10, 95>> }

InitBounds ==
    /\ IdleWrap /\ IdleRamp /\ IdleVertex /\ IdleSimple /\ IdleTexture /\ IdleTicks
    /\ phase = "none" /\ props = <<>> /\ state = <<>> /\ heap = <<>>
    /\ timers = 0 /\ context = <<>> /\ needsRedraw = FALSE /\ rendered = <<>>
    /\ \E west \in -MaxBoundsLng..MaxBoundsLng, width \in BoundsWidths,
          lats \in BoundsLats :
          wbIn = <<west, lats[1], west + width, lats[2]>>
    /\ wbOut = <<>>

CallWrapBounds ==
    /\ wbIn /= <<>>
    /\ wbOut = <<>>
    /\ wbOut' = wrapBounds(wbIn)
    /\ UNCHANGED <<wbIn, wrapVars, rampVars, vertexVars, layerVars, simple, textureVars, tickLog>>

NextBounds == CallWrapBounds

SpecBounds == InitBounds /\ [][NextBounds]_vars

\* C23: for east - west < 360 the result has -180 <= w < 180,
\* w <= e < w + 360 and e - w congruent to east - west modulo 360; for
\* east - west >= 360 its longitudes are -180 and 180; in both cases the
\* latitudes are max(south, -90) and min(north, 90).
C23_WrapBounds ==
    wbOut /= <<>> =>
        LET west == wbIn[1]
            south == wbIn[2]
            east == wbIn[3]
            north == wbIn[4]
            w == wbOut[1]
            e == wbOut[3]
        IN  /\ east - west < 360 =>
                  /\ -180 <= w /\ w < 180
                  /\ w <= e /\ e < w + 360
                  /\ ((e - w) - (east - west)) % 360 = 0
            /\ east - west >= 360 => w = -180 /\ e = 180
            /\ wbOut[2] = Max(south, -90)
            /\ wbOut[4] = Min(north, 90)

\* Bounds that cross the antimeridian and reach beyond a pole: the east
\* edge is lifted by a turn above 180, the latitude is cut.
C23_Witness ==
    /\ wbOut /= <<>>
    /\ wbIn[3] - wbIn[1] = 1
    /\ wbOut[1] = 179
    /\ wbOut[3] = 180
    /\ wbIn[1] = -181
    /\ wbIn[4] = 95 /\ wbOut[4] = 90

----------------------------------------------------------------------------
(* Claims about the ends and the order of the colour ramp (SpecRamp) *)

\* The stops of the lowest position: of several, the one listed first.
LowestStop(ramp) ==
    ramp[CHOOSE j \in 1..Len(ramp) :
            /\ \A k \in 1..Len(ramp) : ramp[j][1] <= ramp[k][1]
            /\ \A k \in 1..(j - 1) : ramp[k][1] > ramp[j][1]]

\* The stops of the highest position: of several, the one listed last.
HighestStop(ramp) ==
    ramp[CHOOSE j \in 1..Len(ramp) :
            /\ \A k \in 1..Len(ramp) : ramp[j][1] >= ramp[k][1]
            /\ \A k \in (j + 1)..Len(ramp) : ramp[k][1] < ramp[j][1]]

\* C24: every sample below the position of the lowest stop holds that
\* stop's colour, every sample above the position of the highest stop holds
\* that stop's colour, in both a missing alpha is 255, and a ramp of one
\* stop holds that stop's colour in all 256 samples.
C24_RampEndClamping ==
    rampOut /= <<>> =>
        /\ Len(rampOut) = COLOR_RAMP_WIDTH
        /\ LET lowest == LowestStop(rampIn)
               highest == HighestStop(rampIn)
           IN  \A i \in 1..COLOR_RAMP_WIDTH :
                  LET t == 2 * (i - 1) IN
                  /\ t < lowest[1] => rampOut[i] = StopBytes(lowest)
                  /\ t > highest[1] => rampOut[i] = StopBytes(highest)
                  /\ Len(rampIn) = 1 => rampOut[i] = StopBytes(rampIn[1])
        /\ \A j \in 1..Len(rampIn) :
              Len(rampIn[j][2]) = 3 => StopBytes(rampIn[j])[4] = 255

\* Two stops listed from high to low, the higher one without alpha, both
\* inside the range: the first sample holds the lower stop's colour, the
\* last one the higher stop's, with alpha 255.
C24_Witness ==
    /\ rampOut /= <<>>
    /\ rampIn = << <<PosDen \div 2, <<59, 130, 189>>>>,
                   <<PosDen \div 5, <<255, 255, 255, 255>>>> >>
    /\ rampOut[1] = <<255, 255, 255, 255>>
    /\ rampOut[COLOR_RAMP_WIDTH] = <<59, 130, 189, 255>>

\* The lists that hold the stops of ramp in another order.
RampPermutations(ramp) ==
    { [j \in 1..Len(ramp) |-> ramp[p[j]]] :
        p \in { q \in [1..Len(ramp) -> 1..Len(ramp)] :
                  \A a, b \in 1..Len(ramp) : a /= b => q[a] /= q[b] } }

\* C25: createColorRampData returns the same table for a list of stops
\* and for every permutation of it.
C25_RampOrderIndependent ==
    rampOut /= <<>> =>
        \A ramp \in RampPermutations(rampIn) : createColorRampData(ramp) = rampOut

\* No two stops of the ramp share a position.
DistinctPositions(ramp) ==
    \A a, b \in 1..Len(ramp) : a /= b => ramp[a][1] /= ramp[b][1]

\* What the code does in place of C25: the table is the same for every
\* permutation of a list whose positions are pairwise distinct.
C25_DistinctStopsOrderIndependent ==
    (rampOut /= <<>> /\ DistinctPositions(rampIn)) =>
        \A ramp \in RampPermutations(rampIn) : createColorRampData(ramp) = rampOut

\* Two stops at position 0 of different colours, then a stop at 1: the
\* samples after the first interpolate from the stop listed second.
C25_Witness ==
    /\ rampOut /= <<>>
    /\ rampIn = << <<0, <<0, 0, 0, 255>>>>, <<0, <<255, 255, 255, 255>>>>,
                   <<PosDen, <<255, 255, 255, 255>>>> >>
    /\ rampOut[2] = <<255, 255, 255, 255>>
    /\ createColorRampData(<<rampIn[2], rampIn[1], rampIn[3]>>)[2] /= rampOut[2]

----------------------------------------------------------------------------
(* SpecTexture: generateWindTexture of mercator-coordinates.ts, from the  *)
(* interpolated grid on, and the decoding of its pixels by the shader     *)

\* The interpolated u and v of a pixel are integers of
\* -TexMaxSpeed .. TexMaxSpeed.
TexMaxSpeed == 2

\* width * height of the texture
TexPixels == 2

UVGrids == [1..TexPixels -> [u : -TexMaxSpeed..TexMaxSpeed, v : -TexMaxSpeed..TexMaxSpeed]]

\* Math.min and Math.max over the grid
GridMin(values) == CHOOSE m \in values : \A x \in values : m <= x

GridMax(values) == CHOOSE m \in values : \A x \in values : m >= x

\* x || 1
OrOne(x) == IF x = 0 THEN 1 ELSE x

\* generateWindTexture, from uvGrid on: the ranges and the RGBA pixels
generateWindTexture(uvGrid) ==
    LET us == {uvGrid[i].u : i \in DOMAIN uvGrid}
        vs == {uvGrid[i].v : i \in DOMAIN uvGrid}
        uMin == GridMin(us)
        uMax == GridMax(us)
        vMin == GridMin(vs)
        vMax == GridMax(vs)
        uRange == OrOne(uMax - uMin)
        vRange == OrOne(vMax - vMin)
    IN  [ uMin |-> uMin, uMax |-> uMax, vMin |-> vMin, vMax |-> vMax,
          imageData |->
              [i \in DOMAIN uvGrid |->
                  [x |-> MathRound((uvGrid[i].u - uMin) * 255, uRange)[1],
                   y |-> MathRound((uvGrid[i].v - vMin) * 255, vRange)[1],
                   a |-> 255, nan |-> FALSE]] ]

\* The README's imageUnscale for a generated texture
readmeImageUnscale(t) == <<Min(t.uMin, t.vMin), Max(t.uMax, t.vMax)>>

InitTexture ==
    /\ IdleWrap /\ IdleRamp /\ IdleVertex /\ IdleSimple /\ IdleBounds /\ IdleTicks
    /\ phase = "none" /\ props = <<>> /\ state = <<>> /\ heap = <<>>
    /\ timers = 0 /\ context = <<>> /\ needsRedraw = FALSE /\ rendered = <<>>
    /\ txIn \in UVGrids
    /\ txOut = <<>>

CallGenerateWindTexture ==
    /\ txIn /= <<>>
    /\ txOut = <<>>
    /\ txOut' = generateWindTexture(txIn)
    /\ UNCHANGED <<txIn, wrapVars, rampVars, vertexVars, layerVars, simple, boundsVars, tickLog>>

NextTexture == CallGenerateWindTexture

SpecTexture == InitTexture /\ [][NextTexture]_vars

\* The shader's uniforms of a layer given the README's imageUnscale.
TextureWind(t) == [imageUnscale |-> readmeImageUnscale(t)]

\* |a - b|
Distance(a, b) == IF a >= b THEN a - b ELSE b - a

\* The decoded pixel i, over TexDen, is within one 8-bit step of the
\* range from the pixel's interpolated u and v.
DecodesTo(t, i, uv) ==
    LET wind == TextureWind(t)
        step == wind.imageUnscale[2] - wind.imageUnscale[1]
        decoded == rasterGetValues(t.imageData[i], wind)
    IN  /\ Distance(decoded[1], TexDen * uv.u) <= step
        /\ Distance(decoded[2], TexDen * uv.v) <= step

\* C26: every pixel of a texture of generateWindTexture, decoded with the
\* README's imageUnscale, gives the pixel's interpolated u and v up to the
\* 8-bit quantisation, has alpha 255 and counts as data.
C26_TextureRoundTrip ==
    txOut /= <<>> =>
        \A i \in DOMAIN txIn :
            /\ DecodesTo(txOut, i, txIn[i])
            /\ txOut.imageData[i].a = 255
            /\ rasterHasValues(txOut.imageData[i], TextureWind(txOut))

\* What the code does in place of C26: the round trip holds when u and v
\* span the same range; every pixel has alpha 255 and counts as data.
C26_SameRangeRoundTrip ==
    txOut /= <<>> =>
        \A i \in DOMAIN txIn :
            /\ (txOut.uMin = txOut.vMin /\ txOut.uMax = txOut.vMax
                    /\ txOut.uMin < txOut.uMax) =>
                  DecodesTo(txOut, i, txIn[i])
            /\ txOut.imageData[i].a = 255
            /\ rasterHasValues(txOut.imageData[i], TextureWind(txOut))

\* u spans -2 .. 2 and v spans 0 .. 1: the pixel with v = 1 is written as
\* 255 and decoded, on the range -2 .. 2, as 2.
C26_Witness ==
    /\ txOut /= <<>>
    /\ txIn = << [u |-> -2, v |-> 0], [u |-> 2, v |-> 1] >>
    /\ txOut.imageData[2].y = 255
    /\ rasterGetValues(txOut.imageData[2], TextureWind(txOut))[2] = 2 * TexDen

----------------------------------------------------------------------------
(* Claims about the rules of main() (SpecVertex) *)

\* The conditions of the seven rules for the vertex of vsIn, in the order
\* of the claim; the last rule has none.
RuleConditions ==
    LET wind == vsIn.wind
        index == particleIndex(vsIn.id, wind)
        xy == XY(vsIn.source)
    IN  << xy = DROP_POSITION,
           isZoomDropped(index, wind),
           isAgeDropped(index, wind),
           ~isPositionInBounds(xy, wind.bounds),
           ~isPositionInViewport(xy, wind),
           ~rasterHasValues(windColour(xy, wind), wind),
           TRUE >>

\* The names of the seven rules.
RuleNames ==
    <<"reseed", "zoomDrop", "ageDrop", "freeze", "viewportDrop", "noDataDrop", "advect">>

\* What rule k alone writes for the vertex of vsIn.
RuleOutcome(k) ==
    CASE k = 1 -> reseedPosition(particleIndex(vsIn.id, vsIn.wind), vsIn.wind)
      [] k = 4 -> XY(vsIn.source)
      [] k = 7 -> advectedPosition(XY(vsIn.source), vsIn.wind)
      [] OTHER -> DROP_POSITION

\* The first rule whose condition holds.
FirstMatch == CHOOSE k \in 1..7 : RuleConditions[k] /\ \A j \in 1..(k - 1) : ~RuleConditions[j]

\* C27: the vertex is written what the first rule whose condition holds
\* writes, in the order reseed, zoom-cull, age-cull, freeze, viewport drop,
\* no-data drop, advect, whatever the conditions of the later rules are.
C27_FirstMatchPriority ==
    vsOut /= <<>> =>
        /\ vsOut.rule = RuleNames[FirstMatch]
        /\ XY(vsOut.target) = RuleOutcome(FirstMatch)

\* A sentinel lane that both culls would drop, reseeded to a position of
\* the window.
C27_Witness ==
    /\ RanOnSentinel
    /\ RuleConditions[2] /\ RuleConditions[3]
    /\ vsOut.rule = "reseed"
    /\ XY(vsOut.target) /= DROP_POSITION

----------------------------------------------------------------------------
(* SpecTicks: a layer whose timeline advances by exactly 1 from step to   *)
(* step                                                                    *)

\* The most steps of one behaviour of SpecTicks.
MaxTicks == 5

\* The time of the first step: a fraction and a whole number.
TickStarts == {1, TimeDen}

\* Math.random() of the steps of SpecTicks
TickSeeds == {1}

\* Two lanes on the whole globe, of two or of three generations.
TickProps ==
    { [BaseProps EXCEPT !.numParticles = 2, !.maxAge = 2],
      [BaseProps EXCEPT !.numParticles = 2, !.maxAge = 3] }

InitTicks ==
    /\ IdleWrap /\ IdleRamp /\ IdleVertex
    /\ IdleSimple /\ IdleBounds /\ IdleTexture
    /\ phase = "new"
    /\ props \in TickProps
    /\ state = NoState
    /\ heap = <<>>
    /\ timers = 0
    /\ context = [time |-> 0]
    /\ needsRedraw = FALSE
    /\ rendered = <<>>
    /\ tickLog = [count |-> 0, alive |-> <<0, 0>>, last |-> <<>>,
                  buffers |-> {}, history |-> <<>>, rules |-> <<>>,
                  skipped |-> <<>>]

\* updateState(params) with the props of TickProps
UpdateTicks == UpdateStateAmong(TickProps)

\* The callback of requestStep's timer at a time of times.  The log counts
\* the callbacks.  Of a step that got past the early returns it keeps the
\* zoom of the step before, the environment of the step, generation 0 as
\* the step found it and the zooms of the callbacks that returned early
\* since the step before; for each lane the number of steps since its
\* generation 0 last was the sentinel; the two position buffers of the
\* step and, newest first, for each of the last maxAge + 1 steps on these
\* buffers since their set-up or reset, generation 0 as the step left it
\* and the rule of main() that each lane took.
TickAt(times) ==
    /\ timers > 0
    /\ tickLog.count < MaxTicks
    /\ \E time \in times, viewport \in Viewports, seed \in TickSeeds :
          \E r \in {timerCallback(state, heap, props, viewport, time, seed)} :
          LET n == props.numParticles
              written == r[2][r[1].sourcePositions].data
              buffers == {state.sourcePositions, state.targetPositions}
              sameBuffers == tickLog.buffers = buffers
              before == IF sameBuffers THEN tickLog.history ELSE <<>>
              rulesBefore == IF sameBuffers THEN tickLog.rules ELSE <<>>
              kept == Min(props.maxAge + 1, Len(before) + 1)
              wind == moduleUniforms(state, props, viewport, time, seed)
              skipped == IF sameBuffers THEN tickLog.skipped ELSE <<>>
          IN  /\ context' = [time |-> time]
              /\ state' = r[1]
              /\ heap' = r[2]
              /\ tickLog' =
                    IF stepIsEffective(state, time)
                    THEN
                    [count |-> tickLog.count + 1,
                     alive |-> [p \in 1..n |->
                                   IF XY(written[p]) = DROP_POSITION THEN 0
                                   ELSE IF sameBuffers THEN tickLog.alive[p] + 1
                                   ELSE 1],
                     last |-> [previousViewportZoom |-> state.previousViewportZoom,
                               viewport |-> viewport, time |-> time, seed |-> seed,
                               source |-> SubSeq(heap[state.sourcePositions].data, 1, n),
                               skipped |-> skipped],
                     buffers |-> buffers,
                     history |-> SubSeq(<<SubSeq(written, 1, n)>> \o before, 1, kept),
                     rules |-> SubSeq(<<[p \in 1..n |->
                                          mainRule(p - 1, heap[state.sourcePositions].data[p], wind)]>>
                                      \o rulesBefore, 1, kept),
                     skipped |-> <<>>]
                    ELSE
                    [count |-> tickLog.count + 1,
                     alive |-> IF sameBuffers THEN tickLog.alive ELSE <<0, 0>>,
                     last |-> IF sameBuffers THEN tickLog.last ELSE <<>>,
                     buffers |-> buffers,
                     history |-> before,
                     rules |-> rulesBefore,
                     skipped |-> Append(skipped, viewport.zoom)]
    /\ timers' = timers - 1
    /\ needsRedraw' = TRUE
    /\ UNCHANGED <<phase, props, rendered, wrapVars, rampVars, vertexVars,
                   simple, boundsVars, textureVars>>

\* The callback at a timeline whose first time is 1 / TimeDen or 1 and
\* whose every later time is the time before plus 1.
Tick ==
    TickAt(IF tickLog.count = 0 THEN TickStarts ELSE {context.time + TimeDen})

\* clear() of the layer of SpecTicks: the buffers are zeroed, and the log
\* starts again.
ClearTicks ==
    /\ phase \in {"active", "finalized"}
    /\ heap' = resetTransformFeedback(state, heap)
    /\ needsRedraw' = TRUE
    /\ tickLog' = [tickLog EXCEPT !.alive = <<0, 0>>, !.last = <<>>,
                                  !.history = <<>>, !.rules = <<>>,
                                  !.skipped = <<>>]
    /\ UNCHANGED <<phase, props, state, timers, context, rendered,
                   wrapVars, rampVars, vertexVars, simple, boundsVars, textureVars>>

NextTicks ==
    \/ InitializeState
    \/ UpdateTicks
    \/ Draw
    \/ Tick
    \/ ClearTicks

SpecTicks == InitTicks /\ [][NextTicks]_vars

----------------------------------------------------------------------------
(* Claims about the culls over the steps of a timeline (SpecTicks) *)

\* A step has run on the buffers of the state, and these were not reset
\* since.
Ticked ==
    /\ tickLog /= <<>>
    /\ tickLog.last /= <<>>
    /\ tickLog.buffers = {state.sourcePositions, state.targetPositions}

\* The uniforms of the last step.
LastWind ==
    moduleUniforms([state EXCEPT !.previousViewportZoom =
                                     tickLog.last.previousViewportZoom],
                   props, tickLog.last.viewport, tickLog.last.time,
                   tickLog.last.seed)

\* Generation 0 of lane p as the last step found it and as it left it.
LastSource(p) == tickLog.last.source[p]

LastWritten(p) == heap[state.sourcePositions].data[p]

\* What the last step writes for lane p when the zoom rule is out of the
\* way, the change factor being 1.
WrittenAtFactorOne(p) ==
    main(p - 1, LastSource(p), [LastWind EXCEPT !.viewportZoomChangeFactor = <<1, 1>>])

\* The zoom of the last step less the zoom of the step before, in quarter
\* levels: 4 * delta.
ZoomRise == tickLog.last.viewport.zoom - tickLog.last.previousViewportZoom

\* C28 as stated: when the zoom went up by delta > 0, every lane that is
\* not the sentinel and has index mod 2^(4 delta) >= 1 is dropped; when it
\* did not go up, no lane is dropped by the rule.
C28_ZoomInCulls ==
    Ticked =>
        \A p \in 1..props.numParticles :
            XY(LastSource(p)) /= DROP_POSITION =>
                IF ZoomRise > 0 /\ (p - 1) % (2 ^ ZoomRise) >= 1
                THEN XY(LastWritten(p)) = DROP_POSITION
                ELSE LastWritten(p) = WrittenAtFactorOne(p)

\* C28 amended: when the zoom went down by delta > 0 (zooming out), the
\* factor is 2^(4 delta) > 1 and every lane that is not the sentinel and
\* has index mod 2^(4 delta) >= 1 is dropped; when it did not go down, the
\* factor is at most 1 and no lane is dropped by the rule.
C28_ZoomOutCulls ==
    Ticked =>
        /\ LastWind.viewportZoomChangeFactor = Pow2(-ZoomRise)
        /\ \A p \in 1..props.numParticles :
              XY(LastSource(p)) /= DROP_POSITION =>
                  IF ZoomRise < 0 /\ (p - 1) % (2 ^ (-ZoomRise)) >= 1
                  THEN XY(LastWritten(p)) = DROP_POSITION
                  ELSE LastWritten(p) = WrittenAtFactorOne(p)

\* A step from zoom 1/2 down to zoom 0 at a time that age-drops neither
\* lane: lane 0 has moved on, lane 1 was a particle and is the sentinel.
C28_Witness ==
    /\ Ticked
    /\ ZoomRise = -2
    /\ XY(LastSource(1)) /= DROP_POSITION /\ XY(LastWritten(1)) /= DROP_POSITION
    /\ XY(LastSource(2)) /= DROP_POSITION /\ XY(LastWritten(2)) = DROP_POSITION
    /\ XY(WrittenAtFactorOne(2)) /= DROP_POSITION

\* The time of the last step is a whole number.
WholeTime == tickLog.last.time % TimeDen = 0

\* Lane p was not the sentinel and passes the zoom rule of the last step.
ReachesAgeRule(p) ==
    /\ XY(LastSource(p)) /= DROP_POSITION
    /\ ~isZoomDropped(p - 1, LastWind)

\* The last step age-dropped lane p.
AgeDropped(p) ==
    /\ mainRule(p - 1, LastSource(p), LastWind) = "ageDrop"
    /\ XY(LastWritten(p)) = DROP_POSITION

\* index mod (maxAge + 2) and time mod (maxAge + 2), both over TimeDen
IndexPhase(p) == TimeDen * ((p - 1) % (props.maxAge + 2))

TimePhase == tickLog.last.time % (TimeDen * (props.maxAge + 2))

\* C29 as stated: with the time advancing by 1 from step to step, a lane
\* that reaches the age rule is age-dropped exactly when its index mod
\* (maxAge + 2) equals the time mod (maxAge + 2); no lane lives through
\* maxAge + 3 consecutive steps; lanes of different index mod (maxAge + 2)
\* are not age-dropped in the same step.
C29_AgeDropAtEqualPhase ==
    Ticked =>
        /\ \A p \in 1..props.numParticles :
              ReachesAgeRule(p) => (AgeDropped(p) <=> IndexPhase(p) = TimePhase)
        /\ \A p \in 1..props.numParticles : tickLog.alive[p] <= props.maxAge + 2
        /\ \A p, q \in 1..props.numParticles :
              (IndexPhase(p) /= IndexPhase(q)) => ~(AgeDropped(p) /\ AgeDropped(q))

\* C29 amended: with the time advancing by 1 from step to step, a lane that
\* reaches the age rule is age-dropped exactly when its index mod
\* (maxAge + 2) is less than 1 away from the time mod (maxAge + 2), which
\* for a whole time is when the two are equal; no lane lives through
\* maxAge + 3 consecutive steps; at a whole time, lanes of different index
\* mod (maxAge + 2) are not age-dropped in the same step.
C29_AgeDropWithinOnePhase ==
    Ticked =>
        /\ \A p \in 1..props.numParticles :
              ReachesAgeRule(p) =>
                  /\ AgeDropped(p) <=> Distance(IndexPhase(p), TimePhase) < TimeDen
                  /\ WholeTime => (AgeDropped(p) <=> IndexPhase(p) = TimePhase)
        /\ \A p \in 1..props.numParticles : tickLog.alive[p] <= props.maxAge + 2
        /\ WholeTime =>
              \A p, q \in 1..props.numParticles :
                  (IndexPhase(p) /= IndexPhase(q)) => ~(AgeDropped(p) /\ AgeDropped(q))

\* Lane 1, reseeded at a step of its own phase, has lived maxAge + 2 steps.
C29_Witness ==
    /\ Ticked
    /\ tickLog.alive[2] = props.maxAge + 2
    /\ ReachesAgeRule(2)
    /\ ~AgeDropped(2)

----------------------------------------------------------------------------
(* Claims about the advection (SpecVertex) *)

\* The vertex has run, was not culled, lies inside the field's bounds and
\* the viewport window, and its sample holds data.
Advected ==
    /\ RanOnParticle
    /\ \A k \in 1..6 : ~RuleConditions[k]

\* The velocity that the sample at the vertex decodes to, over TexDen.
DecodedVelocity == rasterGetValues(windColour(XY(vsIn.source), vsIn.wind), vsIn.wind)

\* num / den of the velocity component c times the speed factor sf
Displacement(c, sf) == [num |-> c * sf[1], den |-> TexDen * sf[2]]

\* C30: an advected vertex is written
\* (wrapLongitude(lng + u sf), lat + v sf cos(lat)) for the velocity (u, v)
\* its sample decodes to and the speed factor sf of the step; with
\* imageUnscale [-1, 1] a raw sample of 1 decodes to 1; with v = 0 the
\* latitude stays and the longitude is lng + u sf modulo 360 in [-180, 180).
C30_AdvectionResult ==
    Advected =>
        LET lng == vsIn.source[1]
            lat == vsIn.source[2]
            sf == vsIn.wind.speedFactor
            du == Displacement(DecodedVelocity[1], sf)
            dv == Displacement(DecodedVelocity[2], sf)
            sample == windColour(XY(vsIn.source), vsIn.wind)
        IN  /\ vsOut.rule = "advect"
            /\ vsOut.target[1] = glslWrapLongitude(lng + Round(du.num, du.den))
            /\ vsOut.target[2] = lat + Round(dv.num * CosMilli(lat), dv.den * 1000)
            /\ (vsIn.wind.imageUnscale = <<-1, 1>> /\ sample.x = TexDen) =>
                  DecodedVelocity[1] = TexDen * 1
            /\ DecodedVelocity[2] = 0 =>
                  /\ vsOut.target[2] = lat
                  /\ (vsOut.target[1] - (lng + Round(du.num, du.den))) % 360 = 0
                  /\ -180 <= vsOut.target[1] /\ vsOut.target[1] < 180

\* A vertex at 45 degrees north in a field of velocity (-1, 1), with a
\* speed factor of 5: it has moved 5 degrees west and 4 degrees north.
C30_Witness ==
    /\ Advected
    /\ vsIn.source = <<90, 45, 0>>
    /\ vsIn.wind.speedFactor = <<5, 1>>
    /\ DecodedVelocity = <<-TexDen, TexDen>>
    /\ vsOut.target = <<85, 49, 0>>

----------------------------------------------------------------------------
(* Claims about the order of the operations of a step (SpecTicks) *)

\* The buffer that the transform of the step wrote, as the step leaves it.
WrittenBuffer == heap'[state.targetPositions].data

\* The buffer that the transform of the step read, as the step found it.
ReadBuffer == heap[state.sourcePositions].data

\* Generation 0 as transform.run() of the step writes it: main() on the
\* lanes of the buffer read, under the uniforms of the step.
AdvectedGeneration ==
    LET wind == moduleUniforms(state, props, tickLog'.last.viewport,
                               context'.time, tickLog'.last.seed)
    IN  [p \in 1..props.numParticles |-> main(p - 1, ReadBuffer[p], wind)]

\* The buffer written once transform.run() has returned and before the
\* copy: generation 0 advected, the older generations as they were.
AfterAdvection ==
    [i \in 1..state.numInstances |->
        IF i <= props.numParticles THEN AdvectedGeneration[i]
        ELSE heap[state.targetPositions].data[i]]

\* The step has advected, then copied, then exchanged the buffers: the
\* buffer written holds the advected generation 0, the state and the
\* transform name it as the source, and a draw that follows reads it, with
\* the copy in it, as the source endpoints of its segments.
AdvectCopySwapThenDraw ==
    /\ SubSeq(WrittenBuffer, 1, props.numParticles) = AdvectedGeneration
    /\ state'.sourcePositions = state.targetPositions
    /\ state'.targetPositions = state.sourcePositions
    /\ BindingsFollowState(state', heap')
    /\ heap'[state.sourcePositions].data = ReadBuffer
    /\ LET frame == drawSegments(state', heap')
       IN  \A i \in 1..state.numInstances :
              /\ frame[i].source = WrittenBuffer[i]
              /\ frame[i].target = ReadBuffer[i]

\* C31 as stated: the order is advect, copy, exchange, then draw, and the
\* copy reads the buffer that the advection of the same step has written.
C31_CopyReadsAdvectedBuffer ==
    [][ EffectiveTick =>
          /\ AdvectCopySwapThenDraw
          /\ \A i \in 1..state.numAgedInstances :
                WrittenBuffer[props.numParticles + i] = AfterAdvection[i]
      ]_vars

\* C31: the order is advect, copy, exchange, then draw; the copy reads the
\* buffer that the advection of the step has read, as it was before the
\* step, and writes behind generation 0 of the buffer that the advection
\* has written.
C31_CopyReadsSourceBuffer ==
    [][ EffectiveTick =>
          /\ AdvectCopySwapThenDraw
          /\ \A i \in 1..state.numAgedInstances :
                WrittenBuffer[props.numParticles + i] = ReadBuffer[i]
      ]_vars

\* A frame drawn after two steps: a lane's newest segment runs from the
\* position advected by the last step to the one copied by it, which the
\* step before had advected.
C31_Witness ==
    /\ Ticked
    /\ tickLog.count >= 2
    /\ rendered /= <<>>
    /\ rendered = drawSegments(state, heap)
    /\ \E p \in 1..props.numParticles :
          /\ ~rendered[p].discarded
          /\ rendered[p].source = Slot(heap[state.sourcePositions].data, 0, p, props.numParticles)
          /\ rendered[p].target = Slot(heap[state.sourcePositions].data, 1, p, props.numParticles)
          /\ rendered[p].source /= rendered[p].target

----------------------------------------------------------------------------
(* Claims about the trail of a lane (SpecTicks) *)

\* Generation 0 as the steps left it since the buffers of the state were
\* set up or reset, newest first: History[j] is h_(k - j + 1).  No step has
\* run on buffers that the log does not name.
History ==
    IF tickLog.buffers = {state.sourcePositions, state.targetPositions}
    THEN tickLog.history
    ELSE <<>>

\* C32: with h_j(p) the generation 0 of lane p after j effective steps
\* since the last set-up or reset and h_0(p) the sentinel, after k steps
\* slot (g, p) of the source buffer is h_(k - g)(p) for g < k and the
\* sentinel (0, 0, 0) for g >= k, for every generation g of 0 .. maxAge - 1.
C32_TrailHistory ==
    state.initialized =>
        LET source == heap[state.sourcePositions].data
            n == props.numParticles
        IN  /\ Len(source) = n * props.maxAge
            /\ \A g \in 0..(props.maxAge - 1), p \in 1..n :
                  Slot(source, g, p, n) =
                      IF g < Len(History) THEN History[g + 1][p]
                      ELSE <<0, 0, 0>>

\* Two steps on buffers of three generations: a lane's two youngest
\* generations hold its two positions, which differ, and the oldest is the
\* sentinel.
C32_Witness ==
    /\ state.initialized
    /\ props.maxAge = 3
    /\ Len(History) = 2
    /\ LET source == heap[state.sourcePositions].data
           n == props.numParticles
       IN  \E p \in 1..n :
              /\ XY(Slot(source, 0, p, n)) /= DROP_POSITION
              /\ XY(Slot(source, 1, p, n)) /= DROP_POSITION
              /\ Slot(source, 0, p, n) /= Slot(source, 1, p, n)
              /\ Slot(source, 1, p, n) = History[2][p]
              /\ Slot(source, 2, p, n) = <<0, 0, 0>>

----------------------------------------------------------------------------
(* SpecSteps: a layer whose timeline may stand still between two callbacks *)

\* Two lanes and two generations on the whole globe.
StepProps == { [BaseProps EXCEPT !.numParticles = 2, !.maxAge = 2] }

InitSteps ==
    /\ IdleWrap /\ IdleRamp /\ IdleVertex
    /\ IdleSimple /\ IdleBounds /\ IdleTexture
    /\ phase = "new"
    /\ props \in StepProps
    /\ state = NoState
    /\ heap = <<>>
    /\ timers = 0
    /\ context = [time |-> 0]
    /\ needsRedraw = FALSE
    /\ rendered = <<>>
    /\ tickLog = [count |-> 0, alive |-> <<0, 0>>, last |-> <<>>,
                  buffers |-> {}, history |-> <<>>, rules |-> <<>>,
                  skipped |-> <<>>]

\* updateState(params) with the props of StepProps
UpdateSteps == UpdateStateAmong(StepProps)

\* The callback at a timeline that starts at 0 and from callback to
\* callback stands still or advances by 1.
Step == TickAt({context.time, context.time + TimeDen})

NextSteps ==
    \/ InitializeState
    \/ UpdateSteps
    \/ Draw
    \/ Step

SpecSteps == InitSteps /\ [][NextSteps]_vars

----------------------------------------------------------------------------
(* Claims about a callback at an unchanged time (SpecSteps) *)

\* The last step that got past the early returns on the buffers of the
\* state, if there is one.
HasEffectiveStep ==
    /\ tickLog.last /= <<>>
    /\ tickLog.buffers = {state.sourcePositions, state.targetPositions}

\* The time and the zoom of that step, and 0 (as the set-up leaves them)
\* when there is none.
EffectiveTime == IF HasEffectiveStep THEN tickLog.last.time ELSE 0

EffectiveZoom == IF HasEffectiveStep THEN tickLog.last.viewport.zoom ELSE 0

\* C33: a callback at the time of the last effective step (or at time 0
\* when there was none since the set-up) runs no transform, no copy and no
\* exchange and leaves previousTime and previousViewportZoom: the resources
\* and the state are as before but for the pending flag, which the callback
\* clears.  Every other callback is an effective step, whose zoom-change
\* factor is taken against the zoom of the last effective step, whatever
\* the zooms of the callbacks in between.
C33_SameTimeStepIsNoOp ==
    [][ (TimerFired /\ state.initialized) =>
          IF context'.time = EffectiveTime
          THEN /\ heap' = heap
               /\ state' = [state EXCEPT !.stepRequested = FALSE]
               /\ state'.previousTime = EffectiveTime
               /\ state'.previousViewportZoom = EffectiveZoom
          ELSE LET viewport == tickLog'.last.viewport
                   wind == moduleUniforms([state EXCEPT !.previousViewportZoom = EffectiveZoom],
                                          props, viewport, context'.time, tickLog'.last.seed)
               IN  /\ wind.viewportZoomChangeFactor = Pow2(EffectiveZoom - viewport.zoom)
                   /\ \A p \in 1..props.numParticles :
                         heap'[state'.sourcePositions].data[p] =
                             main(p - 1, heap[state.sourcePositions].data[p], wind)
                   /\ state'.sourcePositions = state.targetPositions
                   /\ state'.previousTime = context'.time
                   /\ state'.previousViewportZoom = viewport.zoom
      ]_vars

\* A step at zoom 1/2, a callback at the same time at zoom 0, then a step
\* at zoom 0: its factor is 4 and it dropped lane 1.
C33_Witness ==
    /\ Ticked
    /\ tickLog.last.previousViewportZoom = 2
    /\ tickLog.last.skipped = <<0>>
    /\ tickLog.last.viewport.zoom = 0
    /\ LastWind.viewportZoomChangeFactor = Pow2(2)
    /\ XY(LastSource(2)) /= DROP_POSITION
    /\ XY(LastWritten(2)) = DROP_POSITION
    /\ XY(WrittenAtFactorOne(2)) /= DROP_POSITION

----------------------------------------------------------------------------
(* SpecRange: a layer on a strong field and on a field smaller than the   *)
(* viewport                                                                *)

\* Two lanes and two generations on the whole globe, winds of up to 50
\* (the README's range) at three times the default speed factor: the field
\* "texA", which blows towards the meridian and away from the equator, and
\* the field "texB", which blows east.
RangeProps ==
    { [BaseProps EXCEPT !.numParticles = 2, !.maxAge = 2,
                        !.imageUnscale = <<-50, 50>>, !.speedFactor = 150],
      [BaseProps EXCEPT !.numParticles = 2, !.maxAge = 2, !.image = "texB",
                        !.imageUnscale = <<-50, 50>>, !.speedFactor = 150] }

InitRange ==
    /\ IdleWrap /\ IdleRamp /\ IdleVertex
    /\ IdleSimple /\ IdleBounds /\ IdleTexture
    /\ phase = "new"
    /\ props \in RangeProps
    /\ state = NoState
    /\ heap = <<>>
    /\ timers = 0
    /\ context = [time |-> 0]
    /\ needsRedraw = FALSE
    /\ rendered = <<>>
    /\ tickLog = [count |-> 0, alive |-> <<0, 0>>, last |-> <<>>,
                  buffers |-> {}, history |-> <<>>, rules |-> <<>>,
                  skipped |-> <<>>]

\* updateState(params) with the props of RangeProps
UpdateRange == UpdateStateAmong(RangeProps)

NextRange ==
    \/ InitializeState
    \/ UpdateRange
    \/ Draw
    \/ Tick
    \/ ClearTicks

SpecRange == InitRange /\ [][NextRange]_vars

----------------------------------------------------------------------------
(* Claims about the range of the stored positions (SpecRange) *)

\* Every slot of the two position buffers of an initialized state.
StoredPositions ==
    IF state.initialized
    THEN { heap[b].data[i] : b \in {state.sourcePositions, state.targetPositions},
                             i \in 1..state.numInstances }
    ELSE {}

\* The rule of main() that the last step applied to lane p.
LastRule(p) == mainRule(p - 1, LastSource(p), LastWind)

\* Where updatedPosition() puts lane p in the last step, before the
\* longitude is wrapped.
LastUpdatedPosition(p) ==
    LET values == rasterGetValues(windColour(XY(LastSource(p)), LastWind), LastWind)
    IN  updatedPosition(XY(LastSource(p)),
            <<values[1] * LastWind.speedFactor[1], values[2] * LastWind.speedFactor[1]>>,
            TexDen * LastWind.speedFactor[2])

C35_LatitudeRange ==
    \A position \in StoredPositions : -90 <= position[2] /\ position[2] <= 90

----------------------------------------------------------------------------
(* Claims about the segments of a frame (SpecTicks) *)

\* The rules that the lanes took in the steps of History, newest first.
Rules ==
    IF tickLog.buffers = {state.sourcePositions, state.targetPositions}
    THEN tickLog.rules
    ELSE <<>>

\* The frame is the one that draw() made of the buffers as they are.
FreshFrame == phase = "active" /\ state.initialized /\ ~needsRedraw

\* C36: every segment of a frame that is not discarded is generation g of
\* a lane p and joins h_(k-g)(p) to h_(k-g-1)(p), two consecutive
\* generation-0 positions of that lane, neither the sentinel, the later of
\* which the advect rule or the freeze rule made of the earlier; so no
\* drawn segment joins the position before a drop to the position of the
\* reseed after it, or positions of two lanes.
C36_NoSegmentAcrossRespawn ==
    FreshFrame =>
        /\ rendered = drawSegments(state, heap)
        /\ \A i \in DOMAIN rendered :
              ~rendered[i].discarded =>
                  LET g == (i - 1) \div props.numParticles
                      p == ((i - 1) % props.numParticles) + 1
                  IN  /\ g + 2 <= Len(History)
                      /\ rendered[i].source = History[g + 1][p]
                      /\ rendered[i].target = History[g + 2][p]
                      /\ XY(History[g + 1][p]) /= DROP_POSITION
                      /\ XY(History[g + 2][p]) /= DROP_POSITION
                      /\ Rules[g + 1][p] \in {"advect", "freeze"}

\* A frame after a respawn: a lane was a particle, was dropped and is
\* reseeded; its two segments that touch the drop are discarded, and a
\* segment of another lane is drawn.
C36_Witness ==
    /\ FreshFrame
    /\ Len(History) >= 3
    /\ \E p \in 1..props.numParticles :
          /\ Rules[1][p] = "reseed"
          /\ XY(History[1][p]) /= DROP_POSITION
          /\ XY(History[2][p]) = DROP_POSITION
          /\ XY(History[3][p]) /= DROP_POSITION
          /\ rendered[p].discarded
          /\ rendered[props.numParticles + p].discarded
    /\ \E i \in DOMAIN rendered : ~rendered[i].discarded

----------------------------------------------------------------------------
(* SpecLive: the animation loop of a layer, without an end of time *)

\* One lane and two generations on the whole globe.
LiveBase == [BaseProps EXCEPT !.maxAge = 2]

\* The props of the loop: animated and not animated.
LiveProps == { LiveBase, [LiveBase EXCEPT !.animate = FALSE] }

\* The viewports of the loop: the whole world and a window across the
\* antimeridian, at one zoom.
LiveViewports == { v \in Viewports : v.zoom = 0 }

\* The time enters a step only in the test against previousTime and in
\* the age phase mod(time, maxAge + 2): the loop keeps it modulo that
\* period.
LivePeriod == TimeDen * (LiveBase.maxAge + 2)

InitLive ==
    /\ IdleWrap /\ IdleRamp /\ IdleVertex /\ IdleAux
    /\ phase = "new"
    /\ props = LiveBase
    /\ state = NoState
    /\ heap = <<>>
    /\ timers = 0
    /\ context = [time |-> 0]
    /\ needsRedraw = FALSE
    /\ rendered = <<>>

\* updateState(params) with the props of LiveProps
UpdateLive == UpdateStateAmong(LiveProps)

\* The callback of requestStep's timer at a timeline that stands still or
\* advances by 1 between two callbacks.
LiveStep ==
    /\ timers > 0
    /\ \E time \in {context.time, (context.time + TimeDen) % LivePeriod},
          viewport \in LiveViewports, seed \in TickSeeds :
          \E r \in {timerCallback(state, heap, props, viewport, time, seed)} :
              /\ context' = [time |-> time]
              /\ state' = r[1]
              /\ heap' = r[2]
    /\ timers' = timers - 1
    /\ needsRedraw' = TRUE
    /\ UNCHANGED <<phase, props, rendered, pureVars>>

\* draw() in answer to a request to redraw
ServeRedraw == needsRedraw /\ Draw

NextLive ==
    \/ InitializeState
    \/ UpdateLive
    \/ FinalizeState
    \/ Draw
    \/ LiveStep

\* A timer that is pending fires (setTimeout), and a layer that needs a
\* redraw is drawn (the animation loop of the framework).
SpecLive ==
    /\ InitLive /\ [][NextLive]_vars
    /\ WF_vars(LiveStep)
    /\ WF_vars(ServeRedraw)

----------------------------------------------------------------------------
(* Claims about the animation loop (SpecLive) *)

\* animate is set and the pipeline is initialized.
Animating == phase = "active" /\ state.initialized /\ props.animate

\* C37: a frame drawn while animate is set on an initialized pipeline
\* leaves exactly one timer pending; a pending flag is always cleared
\* again; and if from some point on animate is set and the pipeline is
\* initialized, the callback's step runs infinitely often.
C37_AnimationKeepsGoing ==
    /\ []((FreshFrame /\ props.animate) => (state.stepRequested /\ timers = 1))
    /\ (state.stepRequested ~> ~state.stepRequested)
    /\ (<>[]Animating => []<><<TimerFired>>_vars)

\* The loop has gone round: steps have moved the time, the frame of the
\* moved particle is drawn and the next step is pending.
C37_Witness ==
    /\ FreshFrame /\ props.animate
    /\ state.stepRequested /\ timers = 1
    /\ state.previousTime > TimeDen
    /\ \E i \in DOMAIN rendered : ~rendered[i].discarded

----------------------------------------------------------------------------
(* Claims about the state and the props (Spec) *)

\* updateState() has returned at least once and the pipeline is
\* initialized.
UpdatedAndInitialized == phase = "active" /\ state.initialized

----------------------------------------------------------------------------
(* Claims about the frames of SimpleWindLayer (SpecSimple) *)

\* The test at the head of render(): something is missing.
RenderReturnsAtOnce(l) == ~l.gl \/ l.windData = "null" \/ l.windTexture = 0 \/ ~l.map

\* A call of render()
RenderCalled == Render \/ RenderOffMap

\* The frame of a layer l: the draw pass reads state texture 0, the update
\* pass reads it and writes state texture 1, both reach drawArrays, and
\* the two textures, which are distinct, have changed places; the count
\* is the square of ceil(sqrt(numParticles)) and not below numParticles.
PingPongFrame(l, after) ==
    /\ after.last.outcome = "returned"
    /\ Len(after.last.passes) = 2
    /\ after.last.passes[1].pass = "draw" /\ after.last.passes[1].drawn
    /\ after.last.passes[1].particles = l.particleStateTexture0
    /\ after.last.passes[2].pass = "update" /\ after.last.passes[2].drawn
    /\ after.last.passes[2].particles = l.particleStateTexture0
    /\ after.last.passes[2].target = l.particleStateTexture1
    /\ after.particleStateTexture0 = l.particleStateTexture1
    /\ after.particleStateTexture1 = l.particleStateTexture0
    /\ l.particleStateTexture0 /= l.particleStateTexture1
    /\ l.numParticles = CeilSqrt(l.numParticlesOption) * CeilSqrt(l.numParticlesOption)
    /\ l.numParticles >= l.numParticlesOption

\* C39: a render of a layer without GL context, map, wind data or wind
\* texture changes nothing, and every other render draws from state
\* texture 0, writes the update into state texture 1 and swaps the two,
\* which are distinct, with ceil(sqrt(numParticles))^2 particles.
C39_PingPong ==
    [][ RenderCalled =>
          IF RenderReturnsAtOnce(simple)
          THEN /\ simple'.last.passes = <<>>
               /\ simple' = [simple EXCEPT !.last = simple'.last]
          ELSE PingPongFrame(simple, simple')
      ]_vars

\* What the code does: C39 for the layers whose two programs exist; a
\* render that passes the test with a program missing throws from the
\* pass of that program and swaps nothing.
C39_PingPongWithPrograms ==
    [][ RenderCalled =>
          IF RenderReturnsAtOnce(simple)
          THEN /\ simple'.last.passes = <<>>
               /\ simple' = [simple EXCEPT !.last = simple'.last]
          ELSE IF ProgramMissing(simple)
          THEN /\ simple'.last.outcome = "threw"
               /\ simple'.particleStateTexture0 = simple.particleStateTexture0
               /\ simple'.particleStateTexture1 = simple.particleStateTexture1
          ELSE PingPongFrame(simple, simple')
      ]_vars

\* Two frames of a layer of two requested particles: four are drawn and
\* the state textures are back in their places.
C39_Witness ==
    /\ simple.last.op = "render" /\ simple.last.outcome = "returned"
    /\ Len(simple.last.passes) = 2
    /\ simple.numParticlesOption = 2 /\ simple.numParticles = 4
    /\ simple.last.passes[1].particles = simple.particleStateTexture1
    /\ simple.particleStateTexture0 < simple.particleStateTexture1

====
